---- MODULE Spec2Model ----
(***************************************************************************)
(* Model of the aery resource-application runtime (package aery):          *)
(* document loading, parent resolution, name generation and the apply      *)
(* executor of Apply / applyResource.                                      *)
(*                                                                         *)
(* Go strings are modelled as sequences of one-character strings, so that  *)
(* the code's slicing, strings.Cut, strings.LastIndex and strings.Contains *)
(* are computed position by position as the code computes them.            *)
(***************************************************************************)
EXTENDS Integers, Sequences, FiniteSets, TLC

(***************************************************************************)
(* Go string primitives.                                                   *)
(***************************************************************************)

\* s[from:] with 0-based from, as a Go slice expression.
SliceFrom(s, from) == SubSeq(s, from + 1, Len(s))

\* s[:to] with 0-based, exclusive to.
SliceTo(s, to) == SubSeq(s, 1, to)

\* strings.HasPrefix(s, p)
HasPrefix(s, p) == Len(p) <= Len(s) /\ SubSeq(s, 1, Len(p)) = p

\* strings.Index(s, sub): 0-based index of the first occurrence, or -1.
Index(s, sub) ==
    LET hits == {i \in 0..(Len(s) - Len(sub)) : SubSeq(s, i + 1, i + Len(sub)) = sub}
    IN  IF hits = {} THEN -1 ELSE CHOOSE i \in hits : \A j \in hits : i <= j

\* strings.LastIndex(s, sub): 0-based index of the last occurrence, or -1.
LastIndex(s, sub) ==
    LET hits == {i \in 0..(Len(s) - Len(sub)) : SubSeq(s, i + 1, i + Len(sub)) = sub}
    IN  IF hits = {} THEN -1 ELSE CHOOSE i \in hits : \A j \in hits : i >= j

\* strings.Contains(s, sub)
Contains(s, sub) == Index(s, sub) # -1

\* strings.Cut(s, sep): before, after, found.
Cut(s, sep) ==
    LET i == Index(s, sep)
    IN  IF i = -1
        THEN [before |-> s, after |-> <<>>, found |-> FALSE]
        ELSE [before |-> SliceTo(s, i), after |-> SliceFrom(s, i + Len(sep)), found |-> TRUE]

\* strings.Join(parts, sep)
RECURSIVE Join(_, _)
Join(parts, sep) ==
    IF Len(parts) = 0 THEN <<>>
    ELSE IF Len(parts) = 1 THEN parts[1]
    ELSE parts[1] \o sep \o Join(Tail(parts), sep)

\* The printable ASCII characters, code 32 (space) first; the double quote, the
\* backslash and the backtick are spelled out.
AsciiPrintable ==
    << " ", "!", "QUOTE", "#", "$", "%", "&", "'", "(", ")", "*", "+", ",", "-", ".", "/",
       "0", "1", "2", "3", "4", "5", "6", "7", "8", "9", ":", ";", "<", "=", ">", "?",
       "@", "A", "B", "C", "D", "E", "F", "G", "H", "I", "J", "K", "L", "M", "N", "O",
       "P", "Q", "R", "S", "T", "U", "V", "W", "X", "Y", "Z", "[", "BACKSLASH", "]", "^", "_",
       "BACKTICK", "a", "b", "c", "d", "e", "f", "g", "h", "i", "j", "k", "l", "m", "n", "o",
       "p", "q", "r", "s", "t", "u", "v", "w", "x", "y", "z", "{", "|", "}", "~" >>

\* []byte(s): the byte value of every character.
ByteOf(c) == 31 + (CHOOSE i \in 1..Len(AsciiPrintable) : AsciiPrintable[i] = c)
Bytes(s) == [i \in 1..Len(s) |-> ByteOf(s[i])]

\* A conversion to upper case.
ToUpper(s) ==
    [i \in 1..Len(s) |->
        IF ByteOf(s[i]) >= 97 /\ ByteOf(s[i]) <= 122 THEN AsciiPrintable[ByteOf(s[i]) - 32 - 31]
        ELSE s[i]]

\* strings.ToLower, character by character.
ToLowerChar(c) ==
    LET b == ByteOf(c)
    IN  IF b >= 65 /\ b <= 90 THEN AsciiPrintable[b + 32 - 31] ELSE c
ToLower(s) == [i \in 1..Len(s) |-> ToLowerChar(s[i])]

(***************************************************************************)
(* uint32 arithmetic.  A uint32 is the pair <<hi, lo>> of its 16-bit       *)
(* halves; every operation wraps around modulo 2^32 as in Go.              *)
(***************************************************************************)
W16 == 65536

U32(hi, lo) == <<hi, lo>>

Pow2(n) == 2 ^ n

\* a ^ b and a | b on n-bit values, n a power of two: bit by bit, the low
\* half of the bits and the high half apart.
RECURSIVE XorBits(_, _, _)
XorBits(a, b, n) ==
    IF n = 1 THEN (a + b) % 2
    ELSE XorBits(a % Pow2(n \div 2), b % Pow2(n \div 2), n \div 2)
            + Pow2(n \div 2) * XorBits(a \div Pow2(n \div 2), b \div Pow2(n \div 2), n \div 2)

RECURSIVE OrBits(_, _, _)
OrBits(a, b, n) ==
    IF n = 1 THEN (IF a = 1 \/ b = 1 THEN 1 ELSE 0)
    ELSE OrBits(a % Pow2(n \div 2), b % Pow2(n \div 2), n \div 2)
            + Pow2(n \div 2) * OrBits(a \div Pow2(n \div 2), b \div Pow2(n \div 2), n \div 2)

Xor16(a, b) == XorBits(a, b, 16)
Or16(a, b) == OrBits(a, b, 16)

\* x ^ y
Xor32(x, y) == <<Xor16(x[1], y[1]), Xor16(x[2], y[2])>>

\* x | y
Or32(x, y) == <<Or16(x[1], y[1]), Or16(x[2], y[2])>>

\* x + y
Add32(x, y) ==
    LET lo == x[2] + y[2]
    IN  <<(x[1] + y[1] + (lo \div W16)) % W16, lo % W16>>

\* a * b modulo 2^16, for 16-bit a and b.
MulLo16(a, b) == ((a % 256) * b + (((a \div 256) * b) % 256) * 256) % W16

\* The full 32-bit product of 16-bit a and b, from the products of the low
\* and the high byte of a with b.
Mul16Parts(p0, t) ==
    <<(p0 \div W16) + (t \div 256) + (((p0 % W16) + (t % 256) * 256) \div W16),
      ((p0 % W16) + (t % 256) * 256) % W16>>
Mul16(a, b) == Mul16Parts((a % 256) * b, (a \div 256) * b)

\* x * y
Mul32Parts(ll, x, y) ==
    <<(ll[1] + MulLo16(x[1], y[2]) + MulLo16(x[2], y[1])) % W16, ll[2]>>
Mul32(x, y) == Mul32Parts(Mul16(x[2], y[2]), x, y)

\* x << r, for 0 <= r < 32
Shl32(x, r) ==
    IF r >= 16
    THEN <<(x[2] * Pow2(r - 16)) % W16, 0>>
    ELSE <<((x[1] * Pow2(r)) % W16) + (x[2] \div Pow2(16 - r)), (x[2] * Pow2(r)) % W16>>

\* x >> r, for 0 <= r < 32
Shr32(x, r) ==
    IF r >= 16
    THEN <<0, x[1] \div Pow2(r - 16)>>
    ELSE <<x[1] \div Pow2(r), ((x[1] % Pow2(r)) * Pow2(16 - r)) + (x[2] \div Pow2(r))>>

\* A rotation that shifts left and drops the bits shifted out.
rotateLeft32NoWrap(x, r) == Shl32(x, r)

\* (x << r) | (x >> (32 - r))
rotateLeft32(x, r) == Or32(Shl32(x, r), Shr32(x, 32 - r))

c1 == U32(9115, 38427)   \* 0x239b961b
c2 == U32(43790, 38793)  \* 0xab0e9789
c3 == U32(22044, 52507)  \* 0x561ccd1b
c4 == U32(3018, 42823)   \* 0x0bcaa747
c5 == U32(34283, 51819)  \* 0x85ebca6b
c6 == U32(49842, 44597)  \* 0xc2b2ae35

\* uint32(data[i]) | uint32(data[i+1])<<8 | ... for the n bytes from 0-based index.
RECURSIVE LittleEndian(_, _, _)
LittleEndian(data, index, n) ==
    IF n = 0 THEN U32(0, 0)
    ELSE CHOOSE word \in
             { Or32(low, Shl32(U32(0, data[index + n]), 8 * (n - 1))) :
                 low \in { LittleEndian(data, index, n - 1) } } : TRUE

\* k1 *= c1; k1 = rotateLeft32(k1, 15); k1 *= c2
MixK1(k) ==
    CHOOSE k1 \in { Mul32(rotated, c2) :
                      rotated \in { rotateLeft32(scaled, 15) : scaled \in { Mul32(k, c1) } } } : TRUE
\* k2 *= c2; k2 = rotateLeft32(k2, 17); k2 *= c1
MixK2(k) ==
    CHOOSE k2 \in { Mul32(rotated, c1) :
                      rotated \in { rotateLeft32(scaled, 17) : scaled \in { Mul32(k, c2) } } } : TRUE

\* h1 ^= k1; h1 = rotateLeft32(h1, 19); h1 += h2; h1 = h1*5 + c3
BlockH1(h1, h2, k1) ==
    CHOOSE h \in { Add32(Mul32(Add32(rotated, h2), U32(0, 5)), c3) :
                     rotated \in { rotateLeft32(mixed, 19) :
                         mixed \in { Xor32(h1, k) : k \in { MixK1(k1) } } } } : TRUE
\* h2 ^= k2; h2 = rotateLeft32(h2, 13); h2 += h1; h2 = h2*5 + c4
BlockH2(h2, h1, k2) ==
    CHOOSE h \in { Add32(Mul32(Add32(rotated, h1), U32(0, 5)), c4) :
                     rotated \in { rotateLeft32(mixed, 13) :
                         mixed \in { Xor32(h2, k) : k \in { MixK2(k2) } } } } : TRUE
BlockPair(h1, h2, k2) == <<h1, BlockH2(h2, h1, k2)>>

\* The block loop: one 8-byte block per iteration; [index, h] when it ends.
RECURSIVE HashBlocks(_, _, _)
HashBlocks(data, index, h) ==
    IF index + 7 < Len(data)
    THEN CHOOSE blocks \in
             { HashBlocks(data, index + 8, next) :
                 next \in { BlockPair(h1, h[2], k2) :
                     h1 \in { BlockH1(h[1], h[2], k1) : k1 \in { LittleEndian(data, index, 4) } },
                     k2 \in { LittleEndian(data, index + 4, 4) } } } : TRUE
    ELSE [index |-> index, h |-> h]

\* The tail branch: the remaining 1..7 bytes.
TailBytes(data, index, h, tail) ==
    IF tail > 0
    THEN <<CHOOSE h1 \in { Xor32(h[1], k1) :
                  k1 \in { MixK1(word) :
                      word \in { LittleEndian(data, index, IF tail >= 4 THEN 4 ELSE tail) } } } : TRUE,
           IF tail > 4
           THEN CHOOSE h2 \in { Xor32(h[2], k2) :
                    k2 \in { MixK2(word) :
                        word \in { LittleEndian(data, index + 4, tail - 4) } } } : TRUE
           ELSE h[2]>>
    ELSE h
HashTail(data, blocks) == TailBytes(data, blocks.index, blocks.h, Len(data) - blocks.index)

\* h ^= h >> r
XorShr(h, r) == Xor32(h, Shr32(h, r))

\* The avalanche rounds on one accumulator.
Avalanche(h) ==
    CHOOSE out \in
        { XorShr(d, 16) :
            d \in { Mul32(c, c6) :
                c \in { XorShr(b, 13) :
                    b \in { Mul32(a, c5) : a \in { XorShr(h, 16) } } } } } : TRUE

\* h1 += h2; h2 += h1
AddBoth(h1, h2) == <<h1, Add32(h2, h1)>>
Combine(h) == AddBoth(Add32(h[1], h[2]), h[2])

\* h1 ^= uint32(length); h2 ^= uint32(length)
XorLength(h, length) == <<Xor32(h[1], length), Xor32(h[2], length)>>
AvalancheBoth(h) == <<Avalanche(h[1]), Avalanche(h[2])>>

\* uint64(h2)<<32 | uint64(h1), as the pair <<h2, h1>> of its words.
Pack(h) == <<h[2], h[1]>>

\* The statements of MurmurHash64 in program order, each evaluated before
\* the next one starts: the block loop, the tail, the length, the first
\* combination, the avalanche, the second combination.
MurmurHash64(data, seed) ==
    CHOOSE hash \in
        { Pack(Combine(mixed)) :
            mixed \in { AvalancheBoth(combined) :
                combined \in { Combine(XorLength(h, U32(Len(data) \div W16, Len(data) % W16))) :
                    h \in { HashTail(data, blocks) :
                        blocks \in { HashBlocks(data, 0, <<seed, seed>>) } } } } } : TRUE

\* The 64 bits of a uint64, most significant first.
Bits16(n) == [i \in 1..16 |-> (n \div Pow2(16 - i)) % 2]
Bits64(h) == Bits16(h[1][1]) \o Bits16(h[1][2]) \o Bits16(h[2][1]) \o Bits16(h[2][2])

charset ==
    << "a", "b", "c", "d", "e", "f", "g", "h", "i", "j", "k", "l", "m", "n", "o", "p",
       "q", "r", "s", "t", "u", "v", "w", "x", "y", "z", "2", "3", "4", "5", "6", "7" >>

\* The encoding loop: charset[input64>>59], then input64 <<= 5.
RECURSIVE EncodeLoop(_, _)
EncodeLoop(bits, index) ==
    IF index < 13
    THEN LET top == 16 * bits[1] + 8 * bits[2] + 4 * bits[3] + 2 * bits[4] + bits[5]
         IN  <<charset[top + 1]>> \o EncodeLoop(SubSeq(bits, 6, 64) \o <<0, 0, 0, 0, 0>>, index + 1)
    ELSE <<>>

\* An encoding that starts from the low word of the digest.
base32EncodeLowWord(input64) ==
    CHOOSE encoded \in { EncodeLoop(bits, 0) : bits \in { Bits64(<<input64[2], input64[1]>>) } } : TRUE

\* base32EncodeLen13: the loop run on the 64 bits of input64.
base32EncodeLen13(input64) ==
    CHOOSE encoded \in { EncodeLoop(bits, 0) : bits \in { Bits64(input64) } } : TRUE

\* UniqueString(input...): [ok, value]; ok is FALSE for the error return.
UniqueString(input) ==
    IF Len(input) = 0
    THEN [ok |-> FALSE, value |-> <<>>]
    ELSE [ok |-> TRUE,
          value |-> CHOOSE lowered \in
                        { ToLower(encoded) :
                            encoded \in { base32EncodeLen13(hash) :
                                hash \in { MurmurHash64(data, U32(0, 0)) :
                                    data \in { Bytes(Join(input, <<"-">>)) } } } } : TRUE]

(***************************************************************************)
(* ResourceSpec and the Naming Catalog.                                    *)
(***************************************************************************)

\* The empty Go string.
Empty == <<>>

\* The literal "Microsoft.Resources/resourceGroups".
ResourceGroupType ==
    <<"M", "i", "c", "r", "o", "s", "o", "f", "t", ".", "R", "e", "s", "o", "u", "r", "c", "e", "s",
      "/", "r", "e", "s", "o", "u", "r", "c", "e", "G", "r", "o", "u", "p", "s">>

\* One decoded YAML document.  Spec keeps the one property of the resource
\* body that the engine reads, spec.kind.
ResourceSpec(name, alias, parent, type, apiVersion, kind) ==
    [Name |-> name, Alias |-> alias, Parent |-> parent, Type |-> type,
     APIVersion |-> apiVersion, Spec |-> [kind |-> kind]]

\* One Catalog entry.
ResourceKind(kind, propertyPath, value, abbreviation, global) ==
    [Kind |-> kind, CustomKind |-> [PropertyPath |-> propertyPath, Value |-> value],
     Abbreviation |-> abbreviation,
     NamingRules |-> [RestrictedChars |-> [Global |-> global]]]

\* The resource types used by the inputs.
TypeA    == <<"M", "/", "a">>
TypeAB   == <<"M", "/", "a", "/", "b">>
TypeABC  == <<"M", "/", "a", "/", "b", "/", "c">>
TypeABxy == <<"M", "/", "a", "/", "b", "x", "y">>

TypeK    == <<"M", "/", "k">>
TypeZ    == <<"M", "/", "z">>
TypeM    == <<"M">>

\* Values of the kind property.
KindWeb   == <<"w", "e", "b">>
KindWEB   == <<"W", "e", "b">>
KindMyWeb == <<"m", "y", "w", "e", "b">>
KindFun   == <<"f", "u", "n">>
KindApi   == <<"a", "p", "i">>

\* The Catalog (azure.Names.Types): the resource group type, whose names may
\* hold "-"; type M/a, whose names may not; and type M/k with three kinds: a
\* plain Kind, the entry with empty Kind, and a CustomKind on the property
\* path kind.  Type M/z has no entry.
CatalogTypes == {ResourceGroupType, TypeA, TypeK}
Catalog ==
    [t \in CatalogTypes |->
        IF t = ResourceGroupType
        THEN << ResourceKind(Empty, Empty, Empty, <<"r", "g">>, Empty) >>
        ELSE IF t = TypeA
        THEN << ResourceKind(Empty, Empty, Empty, <<"a">>, <<"-", "_">>) >>
        ELSE << ResourceKind(KindWeb, Empty, Empty, <<"w">>, Empty),
                ResourceKind(Empty, Empty, Empty, <<"d">>, <<"-">>),
                ResourceKind(<<"f">>, <<"k", "i", "n", "d">>, KindFun, <<"f">>, <<"_">>) >>]

\* azure.Names.Types[resourceType]: the nil slice for a type without entry.
CatalogKinds(resourceType) ==
    IF resourceType \in DOMAIN Catalog THEN Catalog[resourceType] ELSE <<>>

\* matchResourceKind: <<entry>> for the entry chosen among kinds, <<>> for nil.
RECURSIVE matchLoop(_, _, _, _)
matchLoop(resource, kinds, i, foundKind) ==
    IF i > Len(kinds) THEN foundKind
    ELSE LET resKind  == kinds[i]
             custom   == resKind.CustomKind.PropertyPath # Empty
             kindVal  == IF custom THEN resKind.CustomKind.Value ELSE resKind.Kind
             \* the only property path the modelled documents carry is spec.kind
             exists   == (~custom \/ resKind.CustomKind.PropertyPath = <<"k", "i", "n", "d">>)
                         /\ resource.Spec.kind # Empty
         IN  IF resKind.Kind = Empty
             THEN matchLoop(resource, kinds, i + 1, <<resKind>>)
             ELSE IF exists /\ Contains(ToLower(resource.Spec.kind), ToLower(kindVal))
                  THEN <<resKind>>
                  ELSE matchLoop(resource, kinds, i + 1, foundKind)

matchResourceKind(resource, kinds) == matchLoop(resource, kinds, 1, <<>>)

\* matchResourceKind as built by a Go toolchain older than 1.22, where the
\* loop has one resKind variable for all iterations: foundKind = &resKind
\* points at that variable, so what is returned is its last value: the entry
\* at which the loop broke, or the last entry of kinds when the loop ran to
\* its end after foundKind was set.  pointing says whether foundKind is set.
RECURSIVE matchLoopShared(_, _, _, _)
matchLoopShared(resource, kinds, i, pointing) ==
    IF i > Len(kinds)
    THEN IF pointing THEN <<kinds[Len(kinds)]>> ELSE <<>>
    ELSE IF kinds[i].Kind = Empty
    THEN matchLoopShared(resource, kinds, i + 1, TRUE)
    ELSE IF matchLoop(resource, <<kinds[i]>>, 1, <<>>) # <<>>
    THEN <<kinds[i]>>
    ELSE matchLoopShared(resource, kinds, i + 1, pointing)

matchResourceKindShared(resource, kinds) == matchLoopShared(resource, kinds, 1, FALSE)

ErrNotFound == <<"naming translation for resource type not found">>

\* A name generation that puts "-" before the token whatever the kind allows.
NameForKindAlwaysDash(token, resource, kind) ==
    (IF resource.Alias = Empty THEN kind.Abbreviation ELSE resource.Alias) \o <<"-">> \o token

\* Lines 909-921 of Name: the generated name for the matched kind.
NameForKind(token, resource, kind) ==
    (IF resource.Alias = Empty THEN kind.Abbreviation ELSE resource.Alias)
        \o (IF Contains(kind.NamingRules.RestrictedChars.Global, <<"-">>) THEN Empty ELSE <<"-">>)
        \o token

\* Lines 900-907 of Name: nil from matchResourceKind is an error.
NameForMatch(token, resource, found) ==
    IF found = <<>>
    THEN [ok |-> FALSE,
          value |-> <<"evaluating kind: ">> \o resource.Type \o <<": ">> \o ErrNotFound]
    ELSE [ok |-> TRUE, value |-> NameForKind(token, resource, found[1])]

\* A Name that looks the type up in the Catalog before it looks at resource.Name.
NameCatalogFirst(token, resource) ==
    IF resource.Type \notin DOMAIN Catalog
    THEN [ok |-> FALSE, value |-> resource.Type \o <<": ">> \o ErrNotFound]
    ELSE IF resource.Name # Empty
    THEN [ok |-> TRUE, value |-> resource.Name]
    ELSE NameForMatch(token, resource, matchResourceKind(resource, Catalog[resource.Type]))

\* Name(token, resource): [ok, value] with the name, or with the error text.
Name(token, resource) ==
    IF resource.Name # Empty
    THEN [ok |-> TRUE, value |-> resource.Name]
    ELSE IF resource.Type \notin DOMAIN Catalog
    THEN [ok |-> FALSE, value |-> resource.Type \o <<": ">> \o ErrNotFound]
    ELSE NameForMatch(token, resource, matchResourceKind(resource, Catalog[resource.Type]))

\* Name with the matchResourceKind of a toolchain older than Go 1.22.
NameShared(token, resource) ==
    IF resource.Name # Empty
    THEN [ok |-> TRUE, value |-> resource.Name]
    ELSE IF resource.Type \notin DOMAIN Catalog
    THEN [ok |-> FALSE, value |-> resource.Type \o <<": ">> \o ErrNotFound]
    ELSE NameForMatch(token, resource,
                      matchResourceKindShared(resource, Catalog[resource.Type]))

(***************************************************************************)
(* Parent resolution (the first loop of Apply over a loaded file).         *)
(***************************************************************************)

isChildResource(kind) ==
    LET first == Index(kind, <<"/">>)
    IN  IF first = -1 \/ first + 1 = Len(kind)
        THEN FALSE
        ELSE Contains(SliceFrom(kind, first + 1), <<"/">>)

\* A test that accepts an ancestor at any depth.
AcceptsParentAnyDepth(resourceType, parentType) ==
    LET cut == Cut(resourceType, parentType)
    IN  /\ cut.found
        /\ cut.before = Empty
        /\ Len(cut.after) > 1
        /\ cut.after[1] = "/"

\* The test of line 184 on strings.Cut(resource.Type, parent.Type).
AcceptsParent(resourceType, parentType) ==
    LET cut == Cut(resourceType, parentType)
    IN  /\ cut.found
        /\ cut.before = Empty
        /\ Len(cut.after) > 1
        /\ cut.after[1] = "/"
        /\ ~Contains(SliceFrom(cut.after, 1), <<"/">>)

\* The inner loop over j: the Parent to set for resources[i], Empty if none.
RECURSIVE FindParent(_, _, _)
FindParent(resources, i, j) ==
    IF j > Len(resources) THEN Empty
    ELSE IF i = j THEN FindParent(resources, i, j + 1)
    ELSE IF AcceptsParent(resources[i].Type, resources[j].Type)
         THEN resources[j].Type \o <<"/">> \o resources[j].Name
         ELSE FindParent(resources, i, j + 1)

\* An outer loop that leaves an unresolvable resource as it is and goes on.
RECURSIVE ResolveParentsLenient(_, _)
ResolveParentsLenient(resources, i) ==
    IF i > Len(resources) THEN [ok |-> TRUE, resources |-> resources, failed |-> 0]
    ELSE IF isChildResource(resources[i].Type) /\ resources[i].Parent = Empty
         THEN LET parent == FindParent(resources, i, 1)
              IN  ResolveParentsLenient([resources EXCEPT ![i].Parent = parent], i + 1)
         ELSE ResolveParentsLenient(resources, i + 1)

\* The outer loop over i: [ok, resources, failed]; failed is the index of
\* the resource whose parent could not be resolved.
RECURSIVE ResolveParents(_, _)
ResolveParents(resources, i) ==
    IF i > Len(resources) THEN [ok |-> TRUE, resources |-> resources, failed |-> 0]
    ELSE IF isChildResource(resources[i].Type) /\ resources[i].Parent = Empty
         THEN CHOOSE resolved \in
                  { IF parent = Empty
                    THEN [ok |-> FALSE, resources |-> resources, failed |-> i]
                    ELSE CHOOSE rest \in
                             { ResolveParents(next, i + 1) :
                                 next \in { [resources EXCEPT ![i].Parent = parent] } } : TRUE :
                        parent \in { FindParent(resources, i, 1) } } : TRUE
         ELSE ResolveParents(resources, i + 1)

(***************************************************************************)
(* applyResource up to the request: naming, location, parent validation.   *)
(***************************************************************************)

\* Lines 219-222.
Endpoint(subscriptionId, group) ==
    <<"https://management.azure.com/subscriptions/">> \o subscriptionId
        \o (IF group # Empty THEN <<"/resourceGroups/">> \o group ELSE Empty)

\* A check that rejects only a resource with neither Name nor Alias.
NameAliasErrorNeitherOnly(resource) ==
    IF resource.Name = Empty /\ resource.Alias = Empty
    THEN <<"resource ">> \o resource.Type \o <<" must specify either name or alias">>
    ELSE Empty

\* Lines 225-230: the error text, Empty when exactly one of Name and Alias is set.
NameAliasError(resource) ==
    IF resource.Name = Empty /\ resource.Alias = Empty
    THEN <<"resource ">> \o resource.Type \o <<" must specify either name or alias">>
    ELSE IF resource.Name # Empty /\ resource.Alias # Empty
    THEN <<"resource ">> \o resource.Name \o <<" cannot specify both name and alias">>
    ELSE Empty

\* Lines 238-243: the result of Name is checked and assigned.
AssignName(resource, name) ==
    IF ~name.ok
    THEN [ok |-> FALSE, value |-> <<"generating unique name for alias: ">> \o name.value]
    ELSE [ok |-> TRUE, value |-> [resource EXCEPT !.Name = name.value]]

\* Lines 233-238: the result of UniqueString is checked and handed to Name.
NameFromToken(resource, uniqueToken) ==
    IF ~uniqueToken.ok
    THEN [ok |-> FALSE, value |-> <<"generating unique token: ">>]
    ELSE CHOOSE named \in
             { AssignName(resource, name) : name \in { Name(uniqueToken.value, resource) } } : TRUE

\* A name generation whose token is made of the group of another call.
GenerateNameForOtherGroup(subscriptionId, group, resource) ==
    IF resource.Name = Empty /\ resource.Alias # Empty
    THEN NameFromToken(resource,
                       UniqueString(<<subscriptionId,
                                      IF group = Empty THEN <<"h">> ELSE Empty,
                                      resource.Alias>>))
    ELSE [ok |-> TRUE, value |-> resource]

\* Lines 232-244: [ok, value]: the resource with its Name filled in, or the error.
GenerateName(subscriptionId, group, resource) ==
    IF resource.Name = Empty /\ resource.Alias # Empty
    THEN CHOOSE named \in
             { NameFromToken(resource, uniqueToken) :
                 uniqueToken \in { UniqueString(<<subscriptionId, group, resource.Alias>>) } } : TRUE
    ELSE [ok |-> TRUE, value |-> resource]

\* Lines 248-253: the location of a resource without Parent.
PlainLocation(endpoint, resource) ==
    LET providerSegment == IF resource.Type = ResourceGroupType
                           THEN <<"resourcegroups">>
                           ELSE <<"providers/">> \o resource.Type
    IN  endpoint \o <<"/">> \o providerSegment \o <<"/">> \o resource.Name
            \o <<"?api-version=">> \o resource.APIVersion

\* Lines 255-266: [outcome, value] for a resource with Parent: the location,
\* the "not a valid parent" error, or the panic of slicing with index -1.
ParentLocation(endpoint, resource) ==
    LET lastSlash == LastIndex(resource.Type, <<"/">>)
    IN  IF Len(resource.Parent) >= lastSlash /\ lastSlash < 0
        THEN [outcome |-> "panic", value |-> <<"slice bounds out of range">>]
        ELSE IF Len(resource.Parent) < lastSlash
                \/ SliceTo(resource.Parent, lastSlash) # SliceTo(resource.Type, lastSlash)
        THEN [outcome |-> "error",
              value |-> <<"parent resource ">> \o resource.Parent
                            \o <<" is not a valid parent for resource ">> \o resource.Name]
        ELSE LET base          == SliceTo(resource.Type, lastSlash)
                 parentSegment == SliceFrom(resource.Parent, lastSlash)
                 childSegment  == SliceFrom(resource.Type, lastSlash)
             IN  [outcome |-> "request",
                  value |-> endpoint \o <<"/providers/">> \o base \o parentSegment \o childSegment
                                \o <<"/">> \o resource.Name
                                \o <<"?api-version=">> \o resource.APIVersion]

\* Lines 246-266: the location of the named resource.
Locate(resource, loc) == [outcome |-> loc.outcome, resource |-> resource, value |-> loc.value]
LocateNamed(endpoint, resource, named) ==
    IF ~named.ok
    THEN [outcome |-> "error", resource |-> resource, value |-> named.value]
    ELSE IF named.value.Parent # Empty
    THEN Locate(named.value, ParentLocation(endpoint, named.value))
    ELSE [outcome |-> "request", resource |-> named.value,
          value |-> PlainLocation(endpoint, named.value)]

\* Lines 219-266 as a whole: [outcome, resource, value]; outcome "request"
\* carries the location, "error" and "panic" the text; resource is the
\* ResourceSpec as applyResource leaves it.
PrepareRequest(subscriptionId, group, resource) ==
    IF NameAliasError(resource) # Empty
    THEN [outcome |-> "error", resource |-> resource, value |-> NameAliasError(resource)]
    ELSE CHOOSE prepared \in
             { LocateNamed(Endpoint(subscriptionId, group), resource, named) :
                 named \in { GenerateName(subscriptionId, group, resource) } } : TRUE

(***************************************************************************)
(* Inputs: the arguments of Apply and the contents of the files it reads.  *)
(***************************************************************************)

\* Most resource documents over all the files one Apply call reads.
MaxDocs == 3
\* Most resource files (other than group.yaml and subscription.yaml) in a directory.
MaxFiles == 2
\* Most poll iterations that observe an operation still in progress.
MaxPolls == 1

SubscriptionId == <<"s">>
ApiVersion == <<"1">>
NameG == <<"g">>
NameH == <<"h">>

Doc(name, alias, parent, type) == ResourceSpec(name, alias, parent, type, ApiVersion, Empty)

\* Documents of the resource file in single-file mode.
DocPool ==
    { Doc(<<"x">>, Empty, Empty, TypeA),
      Doc(Empty, <<"k">>, Empty, TypeA),
      Doc(<<"x">>, <<"k">>, Empty, TypeA),
      Doc(Empty, Empty, Empty, TypeA),
      Doc(<<"c">>, Empty, Empty, TypeAB),
      Doc(<<"d">>, Empty, Empty, TypeABC),
      Doc(<<"e">>, Empty, Empty, TypeABxy),
      Doc(<<"c">>, Empty, TypeA \o <<"/", "x">>, TypeAB),
      Doc(<<"c">>, Empty, <<"M", "/", "z", "/", "x">>, TypeAB) }

\* Documents of the resource files of a directory.
DirPool ==
    { Doc(<<"x">>, Empty, Empty, TypeA),
      Doc(Empty, <<"k">>, Empty, TypeA),
      Doc(<<"c">>, Empty, Empty, TypeAB) }

\* Documents of group.yaml.
GroupPool ==
    { Doc(NameG, Empty, Empty, ResourceGroupType),
      Doc(NameH, Empty, Empty, ResourceGroupType),
      Doc(Empty, <<"k">>, Empty, ResourceGroupType),
      Doc(<<"c">>, Empty, Empty, TypeAB) }

\* Documents of subscription.yaml.
SubPool == { Doc(SubscriptionId, Empty, Empty, TypeA), Doc(NameH, Empty, Empty, TypeA) }

\* The sequences over pool of length at most n.
SeqsUpTo(pool, n) == UNION { [1..k -> pool] : k \in 0..n }

\* What readResourcesFile can give: "absent" (os.ErrNotExist), "malformed" (a
\* decoding error) or "ok" with the decoded documents.
Absent == [state |-> "absent", docs |-> <<>>]
Malformed == [state |-> "malformed", docs |-> <<>>]
Decoded(pool, n) == { [state |-> "ok", docs |-> d] : d \in SeqsUpTo(pool, n) }

Args == [path : {"", "missing", "file", "dir"},
         subscriptionId : {Empty, SubscriptionId},
         resourceGroup : {Empty, NameG}]

(***************************************************************************)
(* State.                                                                  *)
(***************************************************************************)
VARIABLES
    args,           \* path, subscriptionId, resourceGroup as passed to Apply
    pc,             \* the position of Apply / applyResource
    resourceGroup,  \* Apply's resourceGroup variable (assigned at line 117)
    subExists,      \* line 97
    groupExists,    \* line 103
    subDef,         \* the documents of subscription.yaml
    groupDef,       \* the documents of group.yaml; applyResource gets &groupDef[0]
    paths,          \* the number of files in paths
    pidx,           \* the index of p in paths
    loaded,         \* the documents of p as readResourcesFile returned them
    resources,      \* the resources of p
    ridx,           \* the index of the apply loop in resources
    frame,          \* applyResource's arguments and locals
    cancelled,      \* ctx is done
    requests,       \* the PUT requests handed to the pipeline, in order
    phase,          \* per resource <<file, position>> (file 0 is group.yaml): its state
    docs,           \* the number of documents read so far
    result          \* what Apply returned

vars == <<args, pc, resourceGroup, subExists, groupExists, subDef, groupDef, paths, pidx,
          loaded, resources, ridx, frame, cancelled, requests, phase, docs, result>>

\* spec is the ResourceSpec as the caller passed it, resource the same
\* ResourceSpec as applyResource has changed it since; status is
\* resp.StatusCode, 0 before a response; poller is the state of the
\* operation as the poller last observed it, "" before the first poll.
NoFrame == [target |-> "none", group |-> Empty, spec |-> Doc(Empty, Empty, Empty, Empty),
            resource |-> Doc(Empty, Empty, Empty, Empty), location |-> Empty,
            status |-> 0, polls |-> 0, poller |-> ""]
Running == [kind |-> "running", msg |-> Empty]
ReturnNil == [kind |-> "nil", msg |-> Empty]
ReturnError(msg) == [kind |-> "error", msg |-> msg]
Panic(msg) == [kind |-> "panic", msg |-> msg]

\* The resource applyResource is working on.
CurrentId == IF frame.target = "group" THEN <<0, 1>> ELSE <<pidx, ridx>>

Init ==
    /\ args \in Args
    /\ pc = "entry"
    /\ resourceGroup = args.resourceGroup
    /\ subExists = FALSE
    /\ groupExists = FALSE
    /\ subDef = <<>>
    /\ groupDef = <<>>
    /\ paths = 0
    /\ pidx = 0
    /\ loaded = <<>>
    /\ resources = <<>>
    /\ ridx = 0
    /\ frame = NoFrame
    /\ cancelled = FALSE
    /\ requests = <<>>
    /\ phase = <<>>
    /\ docs = 0
    /\ result = Running

\* Apply returns r.
Return(r) ==
    /\ pc' = "done"
    /\ result' = r

(***************************************************************************)
(* Apply.                                                                  *)
(***************************************************************************)

\* Lines 74-90: the argument checks and os.Stat.
Entry ==
    /\ pc = "entry"
    /\ IF args.path = ""
       THEN Return(ReturnError(<<"path is required">>))
       ELSE IF args.subscriptionId = Empty
       THEN Return(ReturnError(<<"subscriptionId is required">>))
       ELSE IF args.path = "missing"
       THEN Return(ReturnError(<<"stat: no such file or directory">>))
       ELSE /\ pc' = IF args.path = "dir" THEN "scope" ELSE "list"
            /\ UNCHANGED result
    /\ UNCHANGED <<args, resourceGroup, subExists, groupExists, subDef, groupDef, paths, pidx,
                   loaded, resources, ridx, frame, cancelled, requests, phase, docs>>

\* A scope check that lets a directory with both files pass.
BothScopesAllowed(subOk, groupOk) == FALSE

\* Line 105: subExists && groupExists.
BothScopes(subOk, groupOk) == subOk /\ groupOk

\* Lines 92-107: subscription.yaml and group.yaml are read.
ReadScope ==
    /\ pc = "scope"
    /\ \E sub \in {Absent, Malformed} \cup Decoded(SubPool, MaxDocs - docs) :
         IF sub.state = "malformed"
         THEN /\ Return(ReturnError(<<"reading file: ", "yaml: malformed">>))
              /\ UNCHANGED <<subExists, groupExists, subDef, groupDef, docs, phase>>
         ELSE \E grp \in {Absent, Malformed}
                           \cup Decoded(GroupPool, MaxDocs - docs - Len(sub.docs)) :
                IF grp.state = "malformed"
                THEN /\ Return(ReturnError(<<"reading file: ", "yaml: malformed">>))
                     /\ UNCHANGED <<subExists, groupExists, subDef, groupDef, docs, phase>>
                ELSE /\ subExists' = (sub.state = "ok")
                     /\ groupExists' = (grp.state = "ok")
                     /\ subDef' = sub.docs
                     /\ groupDef' = grp.docs
                     /\ docs' = docs + Len(sub.docs) + Len(grp.docs)
                     /\ phase' = [id \in {<<0, i>> : i \in 1..Len(grp.docs)} |-> "Unapplied"]
                     /\ IF BothScopes(sub.state = "ok", grp.state = "ok")
                        THEN Return(ReturnError(
                                 <<"expected to find either subscription.yaml or group.yaml, not both">>))
                        ELSE /\ pc' = IF grp.state = "ok" THEN "group"
                                      ELSE IF sub.state = "ok" THEN "sub" ELSE "list"
                             /\ UNCHANGED result
    /\ UNCHANGED <<args, resourceGroup, paths, pidx, loaded, resources, ridx, frame, cancelled,
                   requests>>

\* Lines 109-122: the group definition is checked and applyResource is
\* called with group "" and &groupDef[0].
CheckGroup ==
    /\ pc = "group"
    /\ IF Len(groupDef) = 0
       THEN /\ Return(ReturnError(<<"expected to find group definition in ", "group.yaml">>))
            /\ UNCHANGED <<resourceGroup, frame>>
       ELSE IF Len(groupDef) > 1
       THEN /\ Return(ReturnError(<<"expected a single group definition in ", "group.yaml">>))
            /\ UNCHANGED <<resourceGroup, frame>>
       ELSE IF resourceGroup # Empty /\ resourceGroup # groupDef[1].Name
       THEN /\ Return(ReturnError(<<"group ">> \o resourceGroup
                          \o <<" does not match group.yaml: ">> \o groupDef[1].Name))
            /\ UNCHANGED <<resourceGroup, frame>>
       ELSE /\ resourceGroup' = IF resourceGroup = Empty THEN groupDef[1].Name ELSE resourceGroup
            /\ frame' = [NoFrame EXCEPT !.target = "group", !.group = Empty,
                                        !.spec = groupDef[1], !.resource = groupDef[1]]
            /\ pc' = "prepare"
            /\ UNCHANGED result
    /\ UNCHANGED <<args, subExists, groupExists, subDef, groupDef, paths, pidx, loaded,
                   resources, ridx, cancelled, requests, phase, docs>>

\* Lines 128-143: the subscription definition is checked.
CheckSub ==
    /\ pc = "sub"
    /\ IF Len(subDef) = 0
       THEN Return(ReturnError(<<"expected to find subscription definition in ", "subscription.yaml">>))
       ELSE IF Len(subDef) > 1
       THEN Return(ReturnError(<<"expected a single subscription definition in ", "subscription.yaml">>))
       ELSE IF args.subscriptionId # subDef[1].Name
       THEN Return(ReturnError(<<"subscription ">> \o args.subscriptionId
                       \o <<" does not match subscription.yaml: ">> \o subDef[1].Name))
       ELSE /\ pc' = "list"
            /\ UNCHANGED result
    /\ UNCHANGED <<args, resourceGroup, subExists, groupExists, subDef, groupDef, paths, pidx,
                   loaded, resources, ridx, frame, cancelled, requests, phase, docs>>

\* Lines 146-164: paths is filled.
ListPaths ==
    /\ pc = "list"
    /\ IF args.path = "dir"
       THEN \E n \in 0..MaxFiles :
               /\ paths' = n
               /\ pidx' = 1
               /\ pc' = "file"
               /\ UNCHANGED result
       ELSE IF resourceGroup = Empty
       THEN /\ Return(ReturnError(<<"resourceGroup is required when path is a file">>))
            /\ paths' = 1
            /\ UNCHANGED pidx
       ELSE /\ paths' = 1
            /\ pidx' = 1
            /\ pc' = "file"
            /\ UNCHANGED result
    /\ UNCHANGED <<args, resourceGroup, subExists, groupExists, subDef, groupDef, loaded,
                   resources, ridx, frame, cancelled, requests, phase, docs>>

\* Lines 166-170 and 210: the next file of paths is read, or Apply returns nil.
ReadFile ==
    /\ pc = "file"
    /\ IF pidx > paths
       THEN /\ Return(ReturnNil)
            /\ UNCHANGED <<loaded, resources, phase, docs>>
       ELSE \E file \in {Malformed}
                         \cup Decoded(IF args.path = "dir" THEN DirPool ELSE DocPool,
                                      MaxDocs - docs) :
               IF file.state = "malformed"
               THEN /\ Return(ReturnError(<<"reading file: ", "yaml: malformed">>))
                    /\ UNCHANGED <<loaded, resources, phase, docs>>
               ELSE /\ loaded' = file.docs
                    /\ resources' = file.docs
                    /\ docs' = docs + Len(file.docs)
                    /\ phase' = [id \in DOMAIN phase \cup {<<pidx, i>> : i \in 1..Len(file.docs)} |->
                                    IF id \in DOMAIN phase THEN phase[id] ELSE "Unapplied"]
                    /\ pc' = "resolve"
                    /\ UNCHANGED result
    /\ UNCHANGED <<args, resourceGroup, subExists, groupExists, subDef, groupDef, paths, pidx,
                   ridx, frame, cancelled, requests>>

\* Lines 172-195: the parent-resolution pass over the resources of p.
ResolveFile ==
    /\ pc = "resolve"
    /\ \E r \in {ResolveParents(resources, 1)} :
           IF r.ok
           THEN /\ resources' = r.resources
                /\ ridx' = 1
                /\ pc' = "loop"
                /\ UNCHANGED result
           ELSE /\ Return(ReturnError(<<"failed to resolve parent for ">>
                              \o resources[r.failed].Name))
                /\ resources' = r.resources
                /\ UNCHANGED ridx
    /\ UNCHANGED <<args, resourceGroup, subExists, groupExists, subDef, groupDef, paths, pidx,
                   loaded, frame, cancelled, requests, phase, docs>>

\* An apply loop that walks resources from the last to the first.
ApplyNextReversed ==
    /\ pc = "loop"
    /\ IF ridx > Len(resources)
       THEN /\ pidx' = pidx + 1
            /\ pc' = "file"
            /\ UNCHANGED frame
       ELSE /\ frame' = [NoFrame EXCEPT !.target = "resource", !.group = resourceGroup,
                                        !.spec = resources[Len(resources) + 1 - ridx],
                                        !.resource = resources[Len(resources) + 1 - ridx]]
            /\ pc' = "prepare"
            /\ UNCHANGED pidx
    /\ UNCHANGED <<args, resourceGroup, subExists, groupExists, subDef, groupDef, paths,
                   loaded, resources, ridx, cancelled, requests, phase, docs, result>>

\* Lines 201-202 and 207: the apply loop takes its next resource (a copy of
\* resources[ridx]) and calls applyResource, or goes on to the next file.
ApplyNext ==
    /\ pc = "loop"
    /\ IF ridx > Len(resources)
       THEN /\ pidx' = pidx + 1
            /\ pc' = "file"
            /\ UNCHANGED frame
       ELSE /\ frame' = [NoFrame EXCEPT !.target = "resource", !.group = resourceGroup,
                                        !.spec = resources[ridx],
                                        !.resource = resources[ridx]]
            /\ pc' = "prepare"
            /\ UNCHANGED pidx
    /\ UNCHANGED <<args, resourceGroup, subExists, groupExists, subDef, groupDef, paths,
                   loaded, resources, ridx, cancelled, requests, phase, docs, result>>

(***************************************************************************)
(* applyResource.                                                          *)
(***************************************************************************)
StatusOK == 200
StatusCreated == 201
\* The status codes a response can carry.
StatusCodes == {StatusOK, StatusCreated, 202, 404}
StatusText(status) ==
    IF status = StatusOK THEN <<"200">>
    ELSE IF status = StatusCreated THEN <<"201">>
    ELSE IF status = 202 THEN <<"202">> ELSE <<"404">>

\* A check that lets every 2xx status through.
HasStatusCodeAny2xx(status) == status \div 100 = 2

\* Line 292: azruntime.HasStatusCode(resp, http.StatusCreated, http.StatusOK).
HasStatusCode(status) == status \in {StatusCreated, StatusOK}

\* A poller created for every accepted response.
StartsPollerAlways(status) == TRUE

\* Line 296: a poller is created for this response.
StartsPoller(status) == status = StatusCreated

\* Lines 124 and 204: the caller wraps the error of applyResource.  Both
\* callers read the Name of the ResourceSpec they passed by pointer.
WrapError(target, name, err) ==
    IF target = "group"
    THEN ReturnError(<<"failed applying group ">> \o name \o <<": ">> \o err)
    ELSE ReturnError(<<"failed applying resource ">> \o name \o <<": ">> \o err)

\* A caller that drops the error of applyResource and returns nil.
FailResourceReturningNil(err) ==
    /\ Return(ReturnNil)
    /\ phase' = [phase EXCEPT ![CurrentId] = "Failed"]

\* applyResource returns err: the resource has failed and Apply returns.
FailResource(err) ==
    /\ Return(WrapError(frame.target, frame.resource.Name, err))
    /\ phase' = [phase EXCEPT ![CurrentId] = "Failed"]

SetPhase(p) == phase' = [phase EXCEPT ![CurrentId] = p]

\* A pipeline that sends whatever the state of ctx.
PipelineNeverRefuses(ctxDone) == FALSE

\* Line 287: pipeline.Do(req), the request carrying ctx (line 268): the
\* transport sends nothing and returns ctx.Err() when ctx is already done.
PipelineRefuses(ctxDone) == ctxDone

\* Lines 219-287: the name and the location are computed, the request is
\* built and handed to the pipeline.
SendRequest ==
    /\ pc = "prepare"
    /\ \E p \in {PrepareRequest(args.subscriptionId, frame.group, frame.resource)} :
           /\ frame' = [frame EXCEPT !.resource = p.resource,
                                     !.location = IF p.outcome = "request" THEN p.value ELSE Empty]
           /\ groupDef' = IF frame.target = "group"
                          THEN [groupDef EXCEPT ![1] = p.resource]
                          ELSE groupDef
           /\ IF p.outcome = "panic"
              THEN /\ Return(Panic(p.value))
                   /\ SetPhase("Failed")
                   /\ UNCHANGED requests
              ELSE IF p.outcome = "error"
              THEN /\ Return(WrapError(frame.target, p.resource.Name, p.value))
                   /\ SetPhase("Failed")
                   /\ UNCHANGED requests
              ELSE \E built \in BOOLEAN :
                      IF ~built
                      THEN /\ Return(WrapError(frame.target, p.resource.Name,
                                               <<"failed marshalling resource spec: ">>))
                           /\ SetPhase("Failed")
                           /\ UNCHANGED requests
                      ELSE IF PipelineRefuses(cancelled)
                      THEN /\ Return(WrapError(frame.target, p.resource.Name,
                                               <<"executing HTTP request: ", "context canceled">>))
                           /\ SetPhase("Failed")
                           /\ UNCHANGED requests
                      ELSE /\ requests' = Append(requests,
                                              [id |-> CurrentId, method |-> "PUT",
                                               location |-> p.value, group |-> frame.group,
                                               spec |-> frame.spec, resource |-> p.resource])
                           /\ SetPhase("Requested")
                           /\ pc' = "await"
                           /\ UNCHANGED result
    /\ UNCHANGED <<args, resourceGroup, subExists, groupExists, subDef, paths, pidx, loaded,
                   resources, ridx, cancelled, docs>>

\* An applyResource that hands the request to the pipeline again after a
\* transport error.
RespondRetrying ==
    /\ pc = "await"
    /\ \/ /\ pc' = "prepare"
          /\ UNCHANGED <<frame, result, phase>>
       \/ \E status \in StatusCodes :
             /\ frame' = [frame EXCEPT !.status = status]
             /\ IF ~HasStatusCode(status)
                THEN FailResource(<<"ResponseError ">> \o StatusText(status))
                ELSE IF StartsPoller(status)
                THEN \/ FailResource(<<"failed creating poller: ">>)
                     \/ /\ SetPhase("Polling")
                        /\ pc' = "polling"
                        /\ UNCHANGED result
                ELSE /\ SetPhase("SyncApplied")
                     /\ pc' = "payload"
                     /\ UNCHANGED result
    /\ UNCHANGED <<args, resourceGroup, subExists, groupExists, subDef, groupDef, paths, pidx,
                   loaded, resources, ridx, cancelled, requests, docs>>

\* Lines 287-300: pipeline.Do returns, with an error or with a response.
Respond ==
    /\ pc = "await"
    /\ \/ /\ FailResource(<<"executing HTTP request: ", "transport error">>)
          /\ UNCHANGED frame
       \/ \E status \in StatusCodes :
             /\ frame' = [frame EXCEPT !.status = status]
             /\ IF ~HasStatusCode(status)
                THEN FailResource(<<"ResponseError ">> \o StatusText(status))
                ELSE IF StartsPoller(status)
                THEN \/ FailResource(<<"failed creating poller: ">>)
                     \/ /\ SetPhase("Polling")
                        /\ pc' = "polling"
                        /\ UNCHANGED result
                ELSE /\ SetPhase("SyncApplied")
                     /\ pc' = "payload"
                     /\ UNCHANGED result
    /\ UNCHANGED <<args, resourceGroup, subExists, groupExists, subDef, groupDef, paths, pidx,
                   loaded, resources, ridx, cancelled, requests, docs>>

\* A PollUntilDone that does not look at ctx and takes a failed operation
\* for a finished one.
PollForgiving ==
    /\ pc = "polling"
    /\ \/ /\ frame.polls < MaxPolls
          /\ frame' = [frame EXCEPT !.polls = frame.polls + 1, !.poller = "InProgress"]
          /\ UNCHANGED <<pc, result, phase>>
       \/ /\ frame' = [frame EXCEPT !.poller = "Succeeded"]
          /\ pc' = "payload"
          /\ UNCHANGED <<result, phase>>
       \/ /\ frame' = [frame EXCEPT !.poller = "Failed"]
          /\ pc' = "payload"
          /\ UNCHANGED <<result, phase>>
    /\ UNCHANGED <<args, resourceGroup, subExists, groupExists, subDef, groupDef, paths, pidx,
                   loaded, resources, ridx, cancelled, requests, docs>>

\* Line 302: one iteration of PollUntilDone.  The poller uses ctx for its
\* request and for the delay before the next one; it returns an error when
\* ctx is done and when the operation ended in a failed state.
Poll ==
    /\ pc = "polling"
    /\ IF cancelled
       THEN /\ FailResource(<<"context canceled">>)
            /\ UNCHANGED frame
       ELSE \/ /\ frame.polls < MaxPolls
               /\ frame' = [frame EXCEPT !.polls = frame.polls + 1, !.poller = "InProgress"]
               /\ UNCHANGED <<pc, result, phase>>
            \/ /\ frame' = [frame EXCEPT !.poller = "Succeeded"]
               /\ pc' = "payload"
               /\ UNCHANGED <<result, phase>>
            \/ /\ frame' = [frame EXCEPT !.poller = "Failed"]
               /\ FailResource(<<"operation failed">>)
    /\ UNCHANGED <<args, resourceGroup, subExists, groupExists, subDef, groupDef, paths, pidx,
                   loaded, resources, ridx, cancelled, requests, docs>>

\* Lines 307-319: the payload is read and applyResource returns nil; the
\* caller goes on (lines 126-128 after the group, line 201 in the loop).
Finish ==
    /\ pc = "payload"
    /\ \/ /\ FailResource(<<"reading response: ">>)
          /\ UNCHANGED ridx
       \/ /\ SetPhase("Applied")
          /\ IF frame.target = "group"
             THEN /\ pc' = IF subExists THEN "sub" ELSE "list"
                  /\ UNCHANGED ridx
             ELSE /\ pc' = "loop"
                  /\ ridx' = ridx + 1
          /\ UNCHANGED result
    /\ UNCHANGED <<args, resourceGroup, subExists, groupExists, subDef, groupDef, paths, pidx,
                   loaded, resources, frame, cancelled, requests, docs>>

\* The caller cancels ctx.  ctx is read by the pipeline only: when a request
\* is sent and at each poll.
Cancel ==
    /\ pc \in {"prepare", "await", "polling"}
    /\ ~cancelled
    /\ cancelled' = TRUE
    /\ UNCHANGED <<args, pc, resourceGroup, subExists, groupExists, subDef, groupDef, paths,
                   pidx, loaded, resources, ridx, frame, requests, phase, docs, result>>

Next ==
    \/ Entry
    \/ ReadScope
    \/ CheckGroup
    \/ CheckSub
    \/ ListPaths
    \/ ReadFile
    \/ ResolveFile
    \/ ApplyNext
    \/ SendRequest
    \/ Respond
    \/ Poll
    \/ Finish
    \/ Cancel

Spec == Init /\ [][Next]_vars

\* Apply runs on one goroutine that is never held back: each of its steps
\* is taken once it can be.  pipeline.Do returns (Respond) and
\* PollUntilDone comes to a terminal state after at most MaxPolls
\* iterations that find the operation in progress (Poll).
FairSpec == Spec /\ WF_vars(Next)

(***************************************************************************)
(* The functions on their own: Name, matchResourceKind, the request        *)
(* building of applyResource and readResourcesFile, each called once on an *)
(* input drawn from a bounded set.  args holds the call and its arguments, *)
(* frame what the call returned; the other variables of Apply stay as      *)
(* they are.                                                               *)
(***************************************************************************)

\* One entry (key: value) of a YAML document.
YamlEntry(key, value) == <<key, value>>

\* The value decoded into the struct field tagged key: the zero value when
\* the document has no such entry.
RECURSIVE Field(_, _, _)
Field(entries, key, i) ==
    IF i > Len(entries) THEN Empty
    ELSE IF entries[i][1] = key THEN entries[i][2]
    ELSE Field(entries, key, i + 1)

\* decoder.Decode(&doc) on one well-formed document.
Decode(entries) ==
    ResourceSpec(Field(entries, "name", 1), Field(entries, "alias", 1),
                 Field(entries, "parent", 1), Field(entries, "type", 1),
                 Field(entries, "apiVersion", 1), Empty)

\* readResourcesFile on the documents of an opened file: [ok, docs]; a
\* document that does not decode ends the loop with the decoder's error.
RECURSIVE readLoop(_, _, _)
readLoop(raw, i, decoded) ==
    IF i > Len(raw) THEN [ok |-> TRUE, docs |-> decoded]
    ELSE IF ~raw[i].wellFormed THEN [ok |-> FALSE, docs |-> <<>>]
    ELSE readLoop(raw, i + 1, Append(decoded, Decode(raw[i].entries)))

readResourcesFile(raw) == readLoop(raw, 1, <<>>)

\* Most documents of a file handed to readResourcesFile on its own.
MaxRawDocs == 2

\* The documents a file can hold: with and without type and apiVersion, and
\* one that is not valid YAML.
RawDoc(wellFormed, entries) == [wellFormed |-> wellFormed, entries |-> entries]
RawPool ==
    { RawDoc(TRUE, <<YamlEntry("name", <<"x">>), YamlEntry("type", TypeA), YamlEntry("apiVersion", ApiVersion)>>),
      RawDoc(TRUE, <<YamlEntry("type", TypeA), YamlEntry("alias", <<"k">>), YamlEntry("apiVersion", ApiVersion)>>),
      RawDoc(TRUE, <<YamlEntry("name", <<"x">>), YamlEntry("type", TypeA)>>),
      RawDoc(TRUE, <<YamlEntry("name", <<"x">>), YamlEntry("apiVersion", ApiVersion)>>),
      RawDoc(TRUE, <<YamlEntry("name", <<"x">>)>>),
      RawDoc(FALSE, <<>>) }

\* The tokens handed to Name on its own.
TokenPool == { <<"t">>, <<"u", "v">> }

\* The resources handed to Name and to matchResourceKind on their own.
NamePool ==
    { ResourceSpec(name, alias, Empty, type, ApiVersion, kind) :
        name \in {Empty, <<"x">>}, alias \in {Empty, <<"k">>},
        type \in {ResourceGroupType, TypeA, TypeK, TypeZ},
        kind \in {Empty, KindWeb, KindWEB, KindMyWeb, KindFun, KindApi} }

\* The resources handed to the request building on its own: named
\* resources of types with zero to three "/", with the Parent values a
\* document can carry.
ParentPool ==
    { Empty, TypeA \o <<"/", "x">>, TypeAB \o <<"/", "x">>, TypeA, TypeA \o <<"/">>,
      TypeA \o <<"x", "/", "y">>, TypeA \o <<"/", "x", "/", "y">>,
      <<"M", "/", "z", "/", "x">>, <<"M">> }
RequestPool ==
    { Doc(<<"c">>, Empty, parent, type) :
        parent \in ParentPool, type \in {TypeM, TypeA, TypeAB, TypeABC} }

NoResource == Doc(Empty, Empty, Empty, Empty)

\* Most entries of a directory listed on its own.
MaxEntries == 2

\* The entries os.ReadDir can give: resource files, files that are not
\* .yaml files, the two scope files and a subdirectory.
DirEntry(name, isDir) == [name |-> name, isDir |-> isDir]
EntryPool ==
    { DirEntry(<<"a", ".yaml">>, FALSE), DirEntry(<<"notes", ".txt">>, FALSE),
      DirEntry(<<"group", ".yaml">>, FALSE), DirEntry(<<"subscription", ".yaml">>, FALSE),
      DirEntry(<<"d", ".yaml">>, TRUE) }

\* Lines 153-157: the paths appended for entries[i..], each the directory
\* joined with the entry's name.
RECURSIVE ListedPaths(_, _)
ListedPaths(entries, i) ==
    IF i > Len(entries) THEN <<>>
    ELSE IF /\ ~entries[i].isDir
            /\ entries[i].name # <<"group", ".yaml">>
            /\ entries[i].name # <<"subscription", ".yaml">>
    THEN <<(<<"dir", "/">> \o entries[i].name)>> \o ListedPaths(entries, i + 1)
    ELSE ListedPaths(entries, i + 1)

\* The table of TestMurmurHash64: input, seed and expected digest, the
\* uint64 as the pair of its 32-bit words, most significant first.
TestMurmurHash64 ==
    LET test  == <<"t", "e", "s", "t">>
        hello == <<"H", "e", "l", "l", "o", ",", " ", "w", "o", "r", "l", "d", "!">>
        fox   == <<"T", "h", "e", " ", "q", "u", "i", "c", "k", " ", "b", "r", "o", "w", "n", " ",
                   "f", "o", "x", " ", "j", "u", "m", "p", "s", " ", "o", "v", "e", "r", " ",
                   "t", "h", "e", " ", "l", "a", "z", "y", " ", "d", "o", "g">>
    IN  { \* 0x0000000000000000
          [input |-> Empty, seed |-> U32(0, 0), expected |-> <<U32(0, 0), U32(0, 0)>>],
          \* seed 1: 0x3CD62B54B6E5772D
          [input |-> Empty, seed |-> U32(0, 1),
           expected |-> <<U32(15574, 11092), U32(46821, 30509)>>],
          \* seed 0xffffffff: 0xCE0306DC23CC64F0
          [input |-> Empty, seed |-> U32(65535, 65535),
           expected |-> <<U32(52739, 1756), U32(9164, 25840)>>],
          \* 0x884C5DDEBCA14D93
          [input |-> test, seed |-> U32(0, 0),
           expected |-> <<U32(34892, 24030), U32(48289, 19859)>>],
          \* seed 0x9747b28c: 0x4FDB466423FF1947
          [input |-> test, seed |-> U32(38727, 45708),
           expected |-> <<U32(20443, 18020), U32(9215, 6471)>>],
          \* 0x894A6F1657A9D3D1
          [input |-> hello, seed |-> U32(0, 0),
           expected |-> <<U32(35146, 28438), U32(22441, 54225)>>],
          \* seed 0x9747b28c: 0xAA57E8E1C9FC2007
          [input |-> hello, seed |-> U32(38727, 45708),
           expected |-> <<U32(43607, 59617), U32(51708, 8199)>>],
          \* 0xFD8D57877D794DD9
          [input |-> fox, seed |-> U32(0, 0),
           expected |-> <<U32(64909, 22407), U32(32121, 19929)>>],
          \* seed 0x9747b28c: 0x3519BF26ED840E4D
          [input |-> fox, seed |-> U32(38727, 45708),
           expected |-> <<U32(13593, 48934), U32(60804, 3661)>>] }

\* The inputs handed to MurmurHash64 on its own: those of the test table and
\* the prefixes of a 17-byte string, which cover every tail length after
\* zero, one and two blocks.
HashInputs ==
    { [data |-> t.input, seed |-> t.seed] : t \in TestMurmurHash64 }
    \cup { [data |-> SubSeq(<<"a", "b", "c", "d", "e", "f", "g", "h", "i", "j", "k", "l", "m",
                              "n", "o", "p", "q">>, 1, n),
            seed |-> seed] : n \in 1..17, seed \in {U32(0, 0), U32(38727, 45708)} }

\* The table of TestUniqueString: inputs and wanted string.
TestUniqueString ==
    { [inputs |-> <<Empty>>,
       want |-> <<"a", "a", "a", "a", "a", "a", "a", "a", "a", "a", "a", "a", "a">>],
      [inputs |-> << <<"s", "u", "b", "-", "i", "d">> >>,
       want |-> <<"m", "3", "q", "s", "g", "o", "k", "2", "t", "j", "3", "g", "w">>],
      [inputs |-> << <<"s", "u", "b", "-", "i", "d">>, <<"e", "n", "v", "-", "n", "a", "m", "e">>,
                     <<"l", "o", "c", "a", "t", "i", "o", "n">> >>,
       want |-> <<"d", "s", "h", "m", "w", "n", "u", "n", "p", "a", "a", "2", "a">>] }

\* The tuples handed to UniqueString on its own: no part, and one to three
\* parts out of the parts of the test table, a one-letter part and a part
\* of capitals and blanks.
UniqueInputs ==
    SeqsUpTo({ Empty, <<"a">>, <<"s", "u", "b", "-", "i", "d">>,
               <<"e", "n", "v", "-", "n", "a", "m", "e">>,
               <<"l", "o", "c", "a", "t", "i", "o", "n">>, <<"R", "G", " ", "1">> }, 3)

\* A yaml.Node: its Kind, its Value (scalars, and so the keys of a
\* mapping) and its Content.  A mapping's Content is key, value, key, ...
Node(kind, value, content) == [Kind |-> kind, Value |-> value, Content |-> content]

\* The document of TestGetNode, as yaml.Unmarshal builds it.
TestDocument ==
    LET Scalar(v) == Node("ScalarNode", <<v>>, <<>>)
        Mapping(c) == Node("MappingNode", Empty, c)
        Sequence(c) == Node("SequenceNode", Empty, c)
    IN  Node("DocumentNode", Empty,
             << Mapping(<< Scalar("root"),
                  Mapping(<< Scalar("nested"), Mapping(<<Scalar("key"), Scalar("value")>>),
                             Scalar("array"),
                             Sequence(<<Scalar("item1"), Scalar("item2"), Scalar("item3")>>),
                             Scalar("mixedArray"),
                             Sequence(<< Scalar("stringItem"),
                                         Mapping(<< Scalar("nestedObj"),
                                                    Mapping(<<Scalar("deepKey"),
                                                              Scalar("deepValue")>>) >>) >>) >>) >>) >>)

\* A document with a sequence at the top of its mapping and a mapping whose
\* key is the empty string:  list: [p, q]   m: {"": v}
OtherDocument ==
    LET Scalar(v) == Node("ScalarNode", v, <<>>)
    IN  Node("DocumentNode", Empty,
             << Node("MappingNode", Empty,
                     << Scalar(<<"list">>),
                        Node("SequenceNode", Empty, <<Scalar(<<"p">>), Scalar(<<"q">>)>>),
                        Scalar(<<"m">>),
                        Node("MappingNode", Empty, <<Scalar(Empty), Scalar(<<"v">>)>>) >>) >>)

\* strings.Split(s, sep) for a one-character sep.
RECURSIVE Split(_, _)
Split(s, sep) ==
    IF Index(s, <<sep>>) = -1 THEN <<s>>
    ELSE <<SliceTo(s, Index(s, <<sep>>))>> \o Split(SliceFrom(s, Index(s, <<sep>>) + 1), sep)

\* strconv.Atoi: an optional sign and one or more decimal digits.
RECURSIVE Digits(_, _)
Digits(s, acc) ==
    IF Len(s) = 0 THEN acc
    ELSE Digits(Tail(s), 10 * acc + (CHOOSE d \in 0..9 : AsciiPrintable[17 + d] = s[1]))
Atoi(s) ==
    LET signed == Len(s) > 0 /\ s[1] \in {"+", "-"}
        digits == IF signed THEN Tail(s) ELSE s
    IN  IF Len(digits) > 0 /\ \A i \in 1..Len(digits) : \E d \in 0..9 : AsciiPrintable[17 + d] = digits[i]
        THEN [ok |-> TRUE,
              value |-> IF signed /\ s[1] = "-" THEN 0 - Digits(digits, 0) ELSE Digits(digits, 0)]
        ELSE [ok |-> FALSE, value |-> 0]

\* cutBrackets(s): s split at its last "[" when s ends with "]".
cutBrackets(s) ==
    IF Len(s) > 0 /\ s[Len(s)] = "]" /\ LastIndex(s, <<"[">>) # -1
    THEN [before |-> SliceTo(s, LastIndex(s, <<"[">>)), after |-> SliceFrom(s, LastIndex(s, <<"[">>))]
    ELSE [before |-> s, after |-> Empty]

\* expandArrays(parts[i..]): every part gives its text before the brackets
\* as a string element and, when it has brackets, their content as an int
\* element; err is set when the content is not an integer.
RECURSIVE expandArrays(_, _)
expandArrays(parts, i) ==
    IF i > Len(parts) THEN [err |-> FALSE, expanded |-> <<>>]
    ELSE LET cut == cutBrackets(parts[i])
             idx == Atoi(SubSeq(cut.after, 2, Len(cut.after) - 1))
             rest == expandArrays(parts, i + 1)
         IN  IF Len(cut.after) > 0 /\ ~idx.ok THEN [err |-> TRUE, expanded |-> <<>>]
             ELSE IF rest.err THEN rest
             ELSE [err |-> FALSE,
                   expanded |-> <<[isInt |-> FALSE, str |-> cut.before, int |-> 0]>>
                                   \o (IF Len(cut.after) > 0
                                       THEN <<[isInt |-> TRUE, str |-> Empty, int |-> idx.value]>>
                                       ELSE <<>>)
                                   \o rest.expanded]

\* find(current, parts): the node, ErrNodeNotFound, or the run-time panic of
\* an index expression that is out of range.  seek is "" for an int element
\* and isArray is false for a string element, as the two type assertions of
\* lines 37-38 leave them.
RECURSIVE find(_, _)
find(current, parts) ==
    IF Len(parts) = 0 THEN [kind |-> "node", node |-> current]
    ELSE IF current.Kind = "DocumentNode"
    THEN IF Len(current.Content) = 0 THEN [kind |-> "panic"]
         ELSE find(current.Content[1], parts)
    ELSE IF current.Kind = "MappingNode"
    THEN LET hits == { i \in 1..Len(current.Content) :
                         i % 2 = 1 /\ current.Content[i].Value = parts[1].str }
             first == CHOOSE i \in hits : \A j \in hits : i <= j
         IN  IF hits = {} THEN [kind |-> "error"]
             ELSE IF first + 1 > Len(current.Content) THEN [kind |-> "panic"]
             ELSE find(current.Content[first + 1], Tail(parts))
    ELSE IF current.Kind = "SequenceNode" /\ parts[1].isInt /\ parts[1].int < Len(current.Content)
    THEN IF parts[1].int < 0 THEN [kind |-> "panic"]
         ELSE find(current.Content[parts[1].int + 1], Tail(parts))
    ELSE [kind |-> "error"]

\* GetNode(root, path): the node found, an error, or the panic of find.
GetNode(root, path) ==
    LET expanded == expandArrays(Split(path, "."), 1)
        found == find(root, expanded.expanded)
    IN  IF expanded.err THEN [kind |-> "error", err |-> "invalid array index", node |-> <<>>]
        ELSE IF found.kind = "panic" THEN [kind |-> "panic", err |-> "", node |-> <<>>]
        ELSE IF found.kind = "error" THEN [kind |-> "error", err |-> "path not found", node |-> <<>>]
        ELSE [kind |-> "node", err |-> "", node |-> found.node]

\* The paths handed to GetNode: those of TestGetNode, and one to three
\* parts joined with ".", the parts being keys, keys with an index inside
\* and outside the sequence, an index with no key and the empty string.
PathPool ==
    { <<"root", ".", "mixedArray", "[", "1", "]", ".", "nestedObj", ".", "deepKey">> }
    \cup { Join(parts, <<".">>) :
             parts \in SeqsUpTo({ <<"root">>, <<"nested">>, <<"key">>, <<"array">>, <<"nonexistent">>,
                                  <<"array", "[", "1", "]">>, <<"array", "[", "5", "]">>,
                                  <<"array", "[", "-", "1", "]">>, <<"array", "[", "x", "]">>,
                                  <<"[", "1", "]">>, <<"list", "[", "0", "]">>,
                                  <<"m", "[", "0", "]">>, Empty }, 3) \ {<<>>} }

\* One call: the function and its arguments.
Call(op, token, group, resource, raw) ==
    [op |-> op, token |-> token, group |-> group, resource |-> resource, raw |-> raw]
Calls ==
    { Call(op, token, Empty, resource, <<>>) :
        op \in {"Name", "matchResourceKind"}, token \in TokenPool, resource \in NamePool }
    \cup { Call("applyResource", Empty, group, resource, <<>>) :
             group \in {Empty, NameG}, resource \in RequestPool }
    \cup { Call("readResourcesFile", Empty, Empty, NoResource, raw) :
             raw \in SeqsUpTo(RawPool, MaxRawDocs) }
    \cup { Call("ReadDir", Empty, Empty, NoResource, entries) :
             entries \in SeqsUpTo(EntryPool, MaxEntries) }
    \cup { [op |-> "MurmurHash64", data |-> v.data, seed |-> v.seed] : v \in HashInputs }
    \cup { [op |-> "UniqueString", input |-> input] : input \in UniqueInputs }
    \cup { [op |-> "GetNode", root |-> root, path |-> path] :
             root \in {TestDocument, OtherDocument}, path \in PathPool }

CallInit ==
    /\ args \in Calls
    /\ pc = "call"
    /\ resourceGroup = Empty
    /\ subExists = FALSE
    /\ groupExists = FALSE
    /\ subDef = <<>>
    /\ groupDef = <<>>
    /\ paths = 0
    /\ pidx = 0
    /\ loaded = <<>>
    /\ resources = <<>>
    /\ ridx = 0
    /\ frame = <<>>
    /\ cancelled = FALSE
    /\ requests = <<>>
    /\ phase = <<>>
    /\ docs = 0
    /\ result = Running

\* The call returns r.
Returned(r) ==
    /\ pc' = "returned"
    /\ frame' = r
    /\ UNCHANGED <<args, resourceGroup, subExists, groupExists, subDef, groupDef, paths, pidx,
                   loaded, resources, ridx, cancelled, requests, phase, docs, result>>

\* matchResourceKind(resource, azure.Names.Types[resource.Type]) as the
\* build makes it: with one resKind per iteration, or one for the whole loop.
CallMatchResourceKind ==
    /\ pc = "call"
    /\ args.op = "matchResourceKind"
    /\ \E shared \in BOOLEAN :
          Returned([shared |-> shared,
                    found |-> IF shared
                              THEN matchResourceKindShared(args.resource,
                                                           CatalogKinds(args.resource.Type))
                              ELSE matchResourceKind(args.resource,
                                                     CatalogKinds(args.resource.Type))])

\* Name(token, resource), as the build makes its matchResourceKind.
CallName ==
    /\ pc = "call"
    /\ args.op = "Name"
    /\ \E shared \in BOOLEAN :
          Returned([shared |-> shared,
                    name |-> IF shared THEN NameShared(args.token, args.resource)
                             ELSE Name(args.token, args.resource)])

\* applyResource up to azruntime.NewRequest: the location of the request.
CallApplyResource ==
    /\ pc = "call"
    /\ args.op = "applyResource"
    /\ Returned(PrepareRequest(SubscriptionId, args.group, args.resource))

\* readResourcesFile on a file that opens.
CallReadResourcesFile ==
    /\ pc = "call"
    /\ args.op = "readResourcesFile"
    /\ Returned(readResourcesFile(args.raw))

\* Lines 148-158 of Apply in directory mode: paths for the entries read.
CallListPaths ==
    /\ pc = "call"
    /\ args.op = "ReadDir"
    /\ Returned([paths |-> ListedPaths(args.raw, 1)])

\* MurmurHash64([]byte(data), seed).
CallMurmurHash64 ==
    /\ pc = "call"
    /\ args.op = "MurmurHash64"
    /\ Returned([digest |-> MurmurHash64(Bytes(args.data), args.seed)])

\* UniqueString(input...); calls counts the calls made with this tuple and
\* first keeps the string of the first one.
CallUniqueString ==
    /\ pc = "call"
    /\ args.op = "UniqueString"
    /\ \E r \in { UniqueString(args.input) } :
          Returned([ok |-> r.ok, value |-> r.value, calls |-> 1, first |-> r.value])

\* A second call of UniqueString with the same tuple.
CallUniqueStringAgain ==
    /\ pc = "returned"
    /\ args.op = "UniqueString"
    /\ frame.calls = 1
    /\ \E r \in { UniqueString(args.input) } :
          Returned([ok |-> r.ok, value |-> r.value, calls |-> 2, first |-> frame.first])

\* GetNode(&root, path).
CallGetNode ==
    /\ pc = "call"
    /\ args.op = "GetNode"
    /\ Returned(GetNode(args.root, args.path))

CallNext ==
    \/ CallMatchResourceKind
    \/ CallName
    \/ CallApplyResource
    \/ CallReadResourcesFile
    \/ CallListPaths
    \/ CallMurmurHash64
    \/ CallUniqueString
    \/ CallUniqueStringAgain
    \/ CallGetNode

CallSpec == CallInit /\ [][CallNext]_vars

(***************************************************************************)
(* Properties.                                                             *)
(***************************************************************************)

\* A request for the resource is outstanding or its outcome is not yet returned.
InFlight(id) == phase[id] \in {"Requested", "SyncApplied", "Polling"}

\* The request was sent for a resource of a resource file (not group.yaml).
FromFile(request) == request.id[1] >= 1

\* s ends with suffix.
HasSuffix(s, suffix) ==
    Len(suffix) <= Len(s) /\ SubSeq(s, Len(s) - Len(suffix) + 1, Len(s)) = suffix

\* C1: within one Apply call the resources of a file are applied in document
\* order, one at a time: when the PUT for the resource at a position has been
\* issued, every resource at an earlier position of the file has reached
\* Applied, the requests of a file follow the positions of its documents and
\* carry the documents at those positions, and never are two resources in
\* flight.
C1_SequentialInDocumentOrder ==
    /\ \A k \in 1..Len(requests) :
          \A j \in 1..(requests[k].id[2] - 1) :
             phase[<<requests[k].id[1], j>>] = "Applied"
    /\ \A a, b \in 1..Len(requests) :
          (a < b /\ requests[a].id[1] = requests[b].id[1])
             => requests[a].id[2] < requests[b].id[2]
    /\ \A k \in 1..Len(requests) :
          (FromFile(requests[k]) /\ requests[k].id[1] = pidx)
             => requests[k].spec = resources[requests[k].id[2]]
    /\ Cardinality({id \in DOMAIN phase : InFlight(id)}) <= 1

\* C1 witness: the second resource of a file is being polled after the first
\* was applied.
C1_Witness ==
    /\ Len(requests) >= 2
    /\ FromFile(requests[1])
    /\ requests[1].id[1] = requests[2].id[1]
    /\ phase[requests[1].id] = "Applied"
    /\ phase[requests[2].id] = "Polling"

\* C2: when the response to the PUT of a resource carries a status other
\* than 200 and 201, Apply has returned an error ending in the ResponseError
\* of that status, the failed request is the last one issued, every request
\* before it and every earlier resource of the file is still Applied, and
\* every request ever issued is a PUT.
C2_ErrorStatusStopsApply ==
    (frame.status \notin {0, StatusOK, StatusCreated}) =>
        /\ pc = "done"
        /\ result.kind = "error"
        /\ HasSuffix(result.msg, <<"ResponseError ">> \o StatusText(frame.status))
        /\ requests # <<>>
        /\ requests[Len(requests)].id = CurrentId
        /\ phase[CurrentId] = "Failed"
        /\ \A k \in 1..(Len(requests) - 1) : phase[requests[k].id] = "Applied"
        /\ \A j \in 1..(CurrentId[2] - 1) : phase[<<CurrentId[1], j>>] = "Applied"
        /\ \A k \in 1..Len(requests) : requests[k].method = "PUT"

\* C2 witness: the third request got a 404 after two resources were applied.
C2_Witness ==
    /\ frame.status = 404
    /\ Len(requests) = 3
    /\ pc = "done"

\* C3: a resource moves only from Unapplied to Requested, from Requested to
\* SyncApplied on a 200 and to Polling on a 201, from SyncApplied (without a
\* poll) or from Polling (once the poller succeeded) to Applied, and from a
\* state other than Applied to Failed; Applied and Failed are never left.
C3_Moves(from, to) ==
    \/ from = to
    \/ from = "Unapplied" /\ to \in {"Requested", "Failed"}
    \/ from = "Requested" /\ to = "SyncApplied" /\ frame'.status = StatusOK
    \/ from = "Requested" /\ to = "Polling" /\ frame'.status = StatusCreated
    \/ from = "Requested" /\ to = "Failed"
    \/ from = "SyncApplied" /\ to = "Applied" /\ frame.status = StatusOK /\ frame.polls = 0
    \/ from = "SyncApplied" /\ to = "Failed"
    \/ from = "Polling" /\ to = "Applied" /\ frame.status = StatusCreated /\ pc = "payload"
    \/ from = "Polling" /\ to = "Failed"
C3_StateMachine ==
    [][/\ \A id \in DOMAIN phase : id \in DOMAIN phase' /\ C3_Moves(phase[id], phase'[id])
       /\ \A id \in DOMAIN phase' : id \notin DOMAIN phase => phase'[id] = "Unapplied"]_vars

\* C3 witness: a resource answered with 201 was applied after its poller was
\* polled and succeeded.
C3_Witness ==
    /\ requests # <<>>
    /\ requests[Len(requests)].id = CurrentId
    /\ phase[CurrentId] = "Applied"
    /\ frame.status = StatusCreated
    /\ frame.polls = MaxPolls

\* Apply has returned an error whose text starts with prefix.
FailedWith(prefix) ==
    pc = "done" /\ result.kind = "error" /\ HasPrefix(result.msg, prefix)

\* Control is before or inside the reading and parent resolution of a file
\* that is still to be applied.
ResolutionPending ==
    \/ pc \in {"sub", "list", "resolve"}
    \/ pc = "file" /\ pidx <= paths

\* C4: no PUT is issued until parent resolution has completed for every
\* resource of the input: while a file is still to be read or resolved no
\* request has been sent, and when Apply returns the parent-resolution error
\* no request has been sent.
C4_NoPutBeforeResolution ==
    /\ ResolutionPending => requests = <<>>
    /\ FailedWith(<<"failed to resolve parent for ">>) => requests = <<>>

\* C5: when Apply returns the error of a malformed input file, no PUT has
\* been issued, in single-file mode and in directory mode, whatever the
\* position of the malformed file.
C5_MalformedFailsBeforeNetwork ==
    FailedWith(<<"reading file: ", "yaml: malformed">>) => requests = <<>>

\* The location of a resource group named name under the subscription of args.
GroupLocation(name, apiVersion) ==
    <<"https://management.azure.com/subscriptions/">> \o args.subscriptionId
        \o <<"/", "resourcegroups", "/">> \o name \o <<"?api-version=">> \o apiVersion

\* location is a path below the resource group named name of the
\* subscription of args.
InsideGroup(location, name) ==
    LET scope == <<"https://management.azure.com/subscriptions/">> \o args.subscriptionId
                     \o <<"/resourceGroups/">> \o name
    IN  /\ HasPrefix(location, scope)
        /\ Len(location) > Len(scope)
        /\ location[Len(scope) + 1] \in {"/", "/providers/"}

\* C6: in directory mode with one resource-group document in group.yaml,
\* the first PUT is the one of the group, at subscription scope under
\* resourcegroups/<groupName>; every later PUT is under
\* resourceGroups/<groupName> with that same groupName, whether the group
\* document gives a name or an alias; and when Apply returns nil the group
\* and all resources are Applied.
C6_GroupThenResourcesUnderGroup ==
    (/\ args.path = "dir"
     /\ groupExists
     /\ Len(groupDef) = 1
     /\ groupDef[1].Type = ResourceGroupType
     /\ requests # <<>>)
    => /\ requests[1].id = <<0, 1>>
       /\ requests[1].resource.Name # Empty
       /\ requests[1].location
             = GroupLocation(requests[1].resource.Name, requests[1].resource.APIVersion)
       /\ \A k \in 2..Len(requests) :
             InsideGroup(requests[k].location, requests[1].resource.Name)
       /\ (pc = "done" /\ result = ReturnNil)
             => \A id \in DOMAIN phase : phase[id] = "Applied"

\* childType is parentType followed by "/" and one further non-empty
\* segment without "/".
OneMoreSegment(childType, parentType) ==
    /\ Len(childType) > Len(parentType) + 1
    /\ SubSeq(childType, 1, Len(parentType)) = parentType
    /\ childType[Len(parentType) + 1] = "/"
    /\ \A n \in (Len(parentType) + 2)..Len(childType) : childType[n] # "/"

\* The document at position i of the loaded file is a child without Parent.
NeedsParent(i) == isChildResource(loaded[i].Type) /\ loaded[i].Parent = Empty

\* The document at position j is the first one other than i that passes the
\* test for being parent of the document at position i.
FirstParent(i, j) ==
    /\ j # i
    /\ OneMoreSegment(loaded[i].Type, loaded[j].Type)
    /\ \A n \in 1..(j - 1) : n # i => ~OneMoreSegment(loaded[i].Type, loaded[n].Type)

\* The resolution pass over the loaded file has completed.
Resolved == pc \in {"loop", "prepare", "await", "polling", "payload"}

\* C7: once the resolution pass over a file has completed, every resource
\* that was a child without Parent has Parent = p.Type + "/" + p.Name for
\* the first other document p of the file whose Type plus "/" plus one
\* segment without "/" is the resource's Type; a document failing that test
\* is never chosen, and nothing else of the documents is changed.
C7_FirstMatchingParent ==
    Resolved =>
        /\ Len(resources) = Len(loaded)
        /\ \A i \in 1..Len(loaded) :
              /\ resources[i] = [loaded[i] EXCEPT !.Parent = resources[i].Parent]
              /\ IF NeedsParent(i)
                 THEN \E j \in 1..Len(loaded) :
                         /\ FirstParent(i, j)
                         /\ resources[i].Parent
                               = loaded[j].Type \o <<"/">> \o loaded[j].Name
                 ELSE resources[i].Parent = loaded[i].Parent

\* C7 witness: the first document of a file of three got the third as its
\* parent after the second failed the test.
C7_Witness ==
    /\ pc = "loop"
    /\ Len(loaded) = 3
    /\ NeedsParent(1)
    /\ ~OneMoreSegment(loaded[1].Type, loaded[2].Type)
    /\ FirstParent(1, 3)
    /\ resources[1].Parent = loaded[3].Type \o <<"/">> \o loaded[3].Name

\* The document at position i is a child without Parent and no other
\* document of the file is one segment shorter and a prefix of its Type.
Orphan(i) ==
    /\ NeedsParent(i)
    /\ \A j \in 1..Len(loaded) : j # i => ~OneMoreSegment(loaded[i].Type, loaded[j].Type)

\* The first orphan of the loaded file.
FirstOrphan == CHOOSE i \in 1..Len(loaded) : Orphan(i) /\ \A n \in 1..(i - 1) : ~Orphan(n)

\* C8: when the loaded file holds a child without Parent for which no other
\* document of the file can be parent, Apply is about to run the resolution
\* pass or has returned the parent-resolution error for that resource, and no
\* resource of the file has been requested or has left Unapplied.
C8_UnresolvableParentFails ==
    (\E i \in 1..Len(loaded) : Orphan(i)) =>
        /\ \/ pc = "resolve"
           \/ /\ pc = "done"
              /\ result = ReturnError(<<"failed to resolve parent for ">>
                                          \o loaded[FirstOrphan].Name)
        /\ \A i \in 1..Len(loaded) : phase[<<pidx, i>>] = "Unapplied"
        /\ \A k \in 1..Len(requests) : requests[k].id[1] # pidx

\* C8 witness: Apply returned the resolution error for the second document
\* of a file whose first document is a top-level resource.
C8_Witness ==
    /\ pc = "done"
    /\ Len(loaded) >= 2
    /\ ~NeedsParent(1)
    /\ Orphan(2)
    /\ result = ReturnError(<<"failed to resolve parent for ">> \o loaded[2].Name)

\* C9: every PUT for a resource of a child type carries a non-empty Parent,
\* the resource read from group.yaml included.
C9_ChildSentWithParent ==
    \A k \in 1..Len(requests) :
        isChildResource(requests[k].resource.Type) => requests[k].resource.Parent # Empty

\* Exactly one of Name and Alias is set.
ExactlyOneOfNameAlias(resource) == (resource.Name = Empty) # (resource.Alias = Empty)

\* C10: a resource with both Name and Alias, or with neither, is never
\* sent: every request was built from a resource with exactly one of them,
\* and once applyResource has run for a resource violating this, Apply has
\* returned the name/alias error and no request exists for that resource.
C10_NameXorAlias ==
    /\ \A k \in 1..Len(requests) : ExactlyOneOfNameAlias(requests[k].spec)
    /\ (frame.target # "none" /\ ~ExactlyOneOfNameAlias(frame.spec) /\ pc # "prepare")
          => /\ pc = "done"
             /\ result.kind = "error"
             /\ \/ HasSuffix(result.msg, <<" cannot specify both name and alias">>)
                \/ HasSuffix(result.msg, <<" must specify either name or alias">>)
             /\ \A k \in 1..Len(requests) : requests[k].id # CurrentId

\* C10 witness: Apply returned the error for a resource with both Name and
\* Alias after an earlier resource was requested.
C10_Witness ==
    /\ pc = "done"
    /\ requests # <<>>
    /\ frame.spec.Name # Empty
    /\ frame.spec.Alias # Empty
    /\ HasSuffix(result.msg, <<" cannot specify both name and alias">>)

\* C11: when the poller observes a failed terminal state, or ctx is done
\* when the poller looks at it, that step makes Apply return an error: the
\* resource becomes Failed (never Applied), no request is added, the state
\* of every other resource is kept; and once Apply has returned nothing
\* changes any more, so no later resource is requested and nothing is
\* reverted.
C11_PollingErrorStops ==
    [][/\ (/\ pc = "polling"
           /\ cancelled \/ frame'.poller = "Failed"
           /\ <<pc, frame, result, phase>>' # <<pc, frame, result, phase>>)
          => /\ pc' = "done"
             /\ result'.kind = "error"
             /\ phase'[CurrentId] = "Failed"
             /\ requests' = requests
             /\ \A id \in DOMAIN phase \ {CurrentId} : phase'[id] = phase[id]
       /\ pc = "done" => UNCHANGED vars]_vars

\* C11 witness: Apply returned after the poller of the second resource
\* observed a failed operation; the first resource is still Applied.
C11_Witness ==
    /\ pc = "done"
    /\ frame.poller = "Failed"
    /\ Len(requests) = 2
    /\ phase[requests[1].id] = "Applied"
    /\ phase[requests[2].id] = "Failed"

\* C12 (as stated): once ctx is cancelled, Apply sends no new PUT and
\* returns an error: a cancelled Apply call never returns nil.
C12_CancelledReturnsError ==
    [][/\ cancelled => requests' = requests
       /\ (cancelled' /\ pc' = "done") => result'.kind = "error"]_vars

\* C12 (amended): ctx is looked at when a request is handed to the
\* pipeline and at each poll iteration: once ctx is cancelled no request is
\* added, and the step that hands over the next request or runs the next
\* poll iteration makes Apply return an error.
C12_CancelledSendsNothing ==
    [][cancelled =>
          /\ requests' = requests
          /\ (pc \in {"prepare", "polling"} /\ pc' # pc)
                => pc' = "done" /\ result'.kind = "error"]_vars

\* C12 witness: Apply returned the error of a request refused for a done
\* ctx, after an earlier request had been sent.
C12_Witness ==
    /\ pc = "done"
    /\ cancelled
    /\ requests # <<>>
    /\ requests[Len(requests)].id # CurrentId
    /\ HasSuffix(result.msg, <<"executing HTTP request: ", "context canceled">>)

\* C13: Apply never retries: no two requests handed to the pipeline are
\* for the same resource, and once the request or the poll of a resource has
\* failed Apply has returned, with that resource's request (if any) the
\* last one.
C13_NoRetry ==
    /\ \A a, b \in 1..Len(requests) : a # b => requests[a].id # requests[b].id
    /\ \A id \in DOMAIN phase :
          phase[id] = "Failed"
             => /\ pc = "done"
                /\ result.kind # "nil"
                /\ \A k \in 1..(Len(requests) - 1) : requests[k].id # id

\* C13 witness: the second request failed in the transport and Apply
\* returned that error with two requests sent.
C13_Witness ==
    /\ pc = "done"
    /\ Len(requests) = 2
    /\ phase[requests[2].id] = "Failed"
    /\ HasSuffix(result.msg, <<"executing HTTP request: ", "transport error">>)

\* Apply has returned an error because the processing of a resource failed:
\* applyResource failed for the group or for a resource, or the loaded
\* file holds a child whose parent cannot be resolved.
ResourceFailure ==
    /\ pc = "done"
    /\ result.kind = "error"
    /\ \/ \E id \in DOMAIN phase : phase[id] = "Failed"
       \/ \E i \in 1..Len(loaded) : Orphan(i)

\* C14: every error Apply returns because the processing of a resource
\* (group or ordinary resource) failed reads
\* "failed applying resource <name>: <cause>" with a non-empty <name>.
C14_ErrorsNameTheResource ==
    ResourceFailure =>
        /\ Len(result.msg) >= 3
        /\ result.msg[1] = "failed applying resource "
        /\ result.msg[2] # ": "
        /\ \E n \in 3..Len(result.msg) : result.msg[n] = ": "

\* The request is sent under the resource group named group ("": under the
\* subscription itself).
SentUnder(request, group) ==
    /\ Len(request.location) > 3 + Len(group)
    /\ request.location[1] = "https://management.azure.com/subscriptions/"
    /\ SubSeq(request.location, 2, 1 + Len(args.subscriptionId)) = args.subscriptionId
    /\ IF group = Empty
       THEN request.location[2 + Len(args.subscriptionId)] # "/resourceGroups/"
       ELSE /\ request.location[2 + Len(args.subscriptionId)] = "/resourceGroups/"
            /\ SubSeq(request.location, 3 + Len(args.subscriptionId),
                      2 + Len(args.subscriptionId) + Len(group)) = group
            /\ request.location[3 + Len(args.subscriptionId) + Len(group)]
                  \in {"/", "/providers/"}

\* The name the request must carry for the document it was built from.
ExpectedName(request, group) ==
    IF request.spec.Name # Empty
    THEN request.spec.Name
    ELSE Name(UniqueString(<<args.subscriptionId, group, request.spec.Alias>>).value,
              request.spec).value

\* The request carries the expected name, as its Name and as the last
\* segment of its path, and is sent under its group.
C15_Sent(request) ==
    /\ SentUnder(request, request.group)
    /\ \E name \in {ExpectedName(request, request.group)} :
          /\ request.resource.Name = name
          /\ HasSuffix(request.location,
                       <<"/">> \o name \o <<"?api-version=">> \o request.spec.APIVersion)

\* C15: every PUT added to the requests (and none is ever changed or
\* removed) is sent under the name of its document when the document has a
\* Name, and under Name(UniqueString(subscriptionId, group, Alias),
\* resource) when it has only an Alias, group being the resource group under
\* which that same request is sent; the name is the last path segment of the
\* request.
C15_NameFromAliasAndGroup ==
    [][requests' # requests
          => /\ Len(requests') = Len(requests) + 1
             /\ SubSeq(requests', 1, Len(requests)) = requests
             /\ C15_Sent(requests'[Len(requests')])]_vars

\* C15 witness: a resource with only an Alias was sent under a resource group
\* after a named resource.
C15_Witness ==
    /\ Len(requests) = 2
    /\ requests[1].spec.Name # Empty
    /\ requests[2].spec.Name = Empty
    /\ requests[2].spec.Alias # Empty
    /\ requests[2].group = NameG
    /\ requests[2].resource.Name # Empty

\* The path the splice is said to give: the Type up to its last "/", the
\* text after the last "/" of Parent, the last segment of Type, the Name.
SplicedPath(endpoint, resource) ==
    LET lastSlash == LastIndex(resource.Type, <<"/">>)
    IN  endpoint \o <<"/providers/">> \o SliceTo(resource.Type, lastSlash)
            \o <<"/">> \o SliceFrom(resource.Parent, LastIndex(resource.Parent, <<"/">>) + 1)
            \o <<"/">> \o SliceFrom(resource.Type, lastSlash + 1)
            \o <<"/">> \o resource.Name \o <<"?api-version=">> \o resource.APIVersion

\* C16: when applyResource has built the request of a resource whose Parent
\* is set, its location is the endpoint followed by
\* /providers/<baseType>/<parentName>/<childSegment>/<Name>?api-version=<APIVersion>,
\* where parentName is the text after the last "/" of Parent.
C16_ParentSplicedIntoPath ==
    (/\ pc = "returned"
     /\ args.op = "applyResource"
     /\ args.resource.Parent # Empty
     /\ frame.outcome = "request")
        => frame.value = SplicedPath(Endpoint(SubscriptionId, args.group), args.resource)

\* The resource's kind property matches the kind-specific entry as stated:
\* equal to a plain Kind, or containing the Value of a CustomKind, letter
\* case aside.
StatedMatch(resource, entry) ==
    IF entry.CustomKind.PropertyPath = Empty
    THEN resource.Spec.kind = entry.Kind
    ELSE /\ resource.Spec.kind # Empty
         /\ Contains(ToLower(resource.Spec.kind), ToLower(entry.CustomKind.Value))

\* Some kind-specific entry of kinds matches the resource as stated.
SomeStatedMatch(resource, kinds) ==
    \E i \in 1..Len(kinds) : kinds[i].Kind # Empty /\ StatedMatch(resource, kinds[i])

\* C17: what matchResourceKind returns for a resource and the Catalog
\* entries of its type: a kind-specific entry only if the resource's kind
\* property equals its plain Kind or contains its CustomKind Value (case
\* aside), and the entry with empty Kind exactly when the entries have one
\* and no kind-specific entry matches.
C17_KindSelection ==
    (pc = "returned" /\ args.op = "matchResourceKind")
        => LET kinds == CatalogKinds(args.resource.Type)
           IN  /\ (frame.found # <<>> /\ frame.found[1].Kind # Empty)
                     => StatedMatch(args.resource, frame.found[1])
               /\ (frame.found # <<>> /\ frame.found[1].Kind = Empty)
                     <=> (/\ \E i \in 1..Len(kinds) : kinds[i].Kind = Empty
                          /\ ~SomeStatedMatch(args.resource, kinds))

\* Name has returned a name to the call held in args.
NameReturned == pc = "returned" /\ args.op = "Name" /\ frame.name.ok

\* The Catalog entry the returned name was generated for.
NamedKind ==
    IF frame.shared
    THEN matchResourceKindShared(args.resource, CatalogKinds(args.resource.Type))[1]
    ELSE matchResourceKind(args.resource, CatalogKinds(args.resource.Type))[1]

\* C18: Name returns a set resource.Name unchanged and without error, also
\* for a type the Catalog has no entry for; a name it generates starts with
\* the Alias when one is set, with the Abbreviation of the matched kind when
\* none is, and ends with the token.
C18_NameOrPrefixAndToken ==
    (pc = "returned" /\ args.op = "Name")
        => /\ args.resource.Name # Empty
                 => frame.name = [ok |-> TRUE, value |-> args.resource.Name]
           /\ (args.resource.Name = Empty /\ frame.name.ok)
                 => /\ HasSuffix(frame.name.value, args.token)
                    /\ HasPrefix(frame.name.value,
                                 IF args.resource.Alias # Empty
                                 THEN args.resource.Alias
                                 ELSE NamedKind.Abbreviation)

\* C18 witness: Name returned the set name of a resource whose type has no
\* Catalog entry.
C18_Witness ==
    /\ NameReturned
    /\ args.resource.Type \notin DOMAIN Catalog
    /\ args.resource.Name # Empty
    /\ frame.name.value = args.resource.Name

\* C19: a generated name is the prefix (the Alias, or the Abbreviation of the
\* matched kind) directly followed by the token when the kind's
\* RestrictedChars.Global contains "-", and the prefix, "-" and the token
\* otherwise.
C19_SeparatorUnlessRestricted ==
    (NameReturned /\ args.resource.Name = Empty)
        => \E prefix \in {IF args.resource.Alias # Empty
                          THEN args.resource.Alias
                          ELSE NamedKind.Abbreviation} :
              frame.name.value =
                  IF Contains(NamedKind.NamingRules.RestrictedChars.Global, <<"-">>)
                  THEN prefix \o args.token
                  ELSE prefix \o <<"-">> \o args.token

\* C19 witness: a name generated without separator for a kind that
\* restricts "-", from the Abbreviation.
C19_Witness ==
    /\ NameReturned
    /\ args.resource.Name = Empty
    /\ args.resource.Alias = Empty
    /\ Contains(NamedKind.NamingRules.RestrictedChars.Global, <<"-">>)
    /\ frame.name.value = NamedKind.Abbreviation \o args.token

\* C20: readResourcesFile returns an error for a file with a document that
\* has no type or no apiVersion: every ResourceSpec it returns has a Type and
\* an APIVersion.
C20_LoaderRejectsIncomplete ==
    (pc = "returned" /\ args.op = "readResourcesFile" /\ frame.ok)
        => \A i \in 1..Len(frame.docs) :
              frame.docs[i].Type # Empty /\ frame.docs[i].APIVersion # Empty

\* C21: when the directory holds both subscription.yaml and group.yaml,
\* Apply has returned the "not both" error and no request was ever issued.
C21_BothScopesRejected ==
    (subExists /\ groupExists)
        => /\ pc = "done"
           /\ result = ReturnError(
                  <<"expected to find either subscription.yaml or group.yaml, not both">>)
           /\ requests = <<>>

\* C21 witness: Apply returned on a directory whose subscription.yaml and
\* group.yaml each hold one definition that matches the arguments.
C21_Witness ==
    /\ pc = "done"
    /\ subExists /\ groupExists
    /\ Len(subDef) = 1 /\ subDef[1].Name = args.subscriptionId
    /\ Len(groupDef) = 1 /\ groupDef[1].Name = args.resourceGroup
    /\ result.kind = "error"

\* C22: every path that Apply lists for a directory, and so every file it
\* goes on to load, has a name ending in .yaml.
C22_OnlyYamlFilesListed ==
    (pc = "returned" /\ args.op = "ReadDir")
        => \A i \in 1..Len(frame.paths) : HasSuffix(frame.paths[i], <<".yaml">>)


\* C23: MurmurHash64 gives every input of the table of TestMurmurHash64,
\* with the seed of its row, exactly the digest of that row.
C23_TestVectorDigests ==
    (pc = "returned" /\ args.op = "MurmurHash64") =>
        \A t \in TestMurmurHash64 :
            (t.input = args.data /\ t.seed = args.seed) => frame.digest = t.expected

\* The 43-byte input with the seed 0x9747b28c has returned its digest.
C23_Witness ==
    /\ pc = "returned"
    /\ args.op = "MurmurHash64"
    /\ Len(args.data) = 43
    /\ args.seed = U32(38727, 45708)
    /\ frame.digest = <<U32(13593, 48934), U32(60804, 3661)>>


\* The bits the encoding reads: the 64 of the seed-0 digest of the parts
\* joined with "-", and the 0 that the shifts bring in as the 65th.
DigestBits(input) ==
    Bits64(MurmurHash64(Bytes(Join(input, <<"-">>)), U32(0, 0))) \o <<0>>

\* C24: UniqueString returns the strings of the table of TestUniqueString,
\* and the i-th character of what it returns is the character of the
\* alphabet selected by bits 5i-4..5i (from the top, a 0 after the 64th) of
\* the seed-0 digest of the parts joined with "-".
C24_JoinHashEncode ==
    (pc = "returned" /\ args.op = "UniqueString" /\ Len(args.input) > 0) =>
        /\ frame.ok
        /\ \A t \in TestUniqueString : t.inputs = args.input => frame.value = t.want
        /\ \E bits \in { DigestBits(args.input) } :
              \A i \in 1..13 :
                  frame.value[i] =
                      charset[16 * bits[5 * i - 4] + 8 * bits[5 * i - 3] + 4 * bits[5 * i - 2]
                                + 2 * bits[5 * i - 1] + bits[5 * i] + 1]

\* The three-part tuple of the test table has returned its string.
C24_Witness ==
    /\ pc = "returned"
    /\ args.op = "UniqueString"
    /\ Len(args.input) = 3
    /\ \E t \in TestUniqueString : t.inputs = args.input /\ frame.value = t.want

C26_GetNodeNeverPanics ==
    (pc = "returned" /\ args.op = "GetNode") => frame.kind \in {"node", "error"}

\* The paths of TestGetNode on its document give what the test expects.
C26_TestRows ==
    (pc = "returned" /\ args.op = "GetNode" /\ args.root = TestDocument) =>
        /\ args.path = <<"root", ".", "nested", ".", "key">> =>
              frame.kind = "node" /\ frame.node = Node("ScalarNode", <<"value">>, <<>>)
        /\ args.path = <<"root", ".", "array", "[", "1", "]">> =>
              frame.kind = "node" /\ frame.node = Node("ScalarNode", <<"item2">>, <<>>)
        /\ args.path = <<"root", ".", "mixedArray", "[", "1", "]", ".", "nestedObj", ".", "deepKey">> =>
              frame.kind = "node" /\ frame.node = Node("ScalarNode", <<"deepValue">>, <<>>)
        /\ args.path \in { <<"root", ".", "nonexistent">>, <<"root", ".", "array", "[", "5", "]">>,
                           <<"root", ".", "array", ".", "[", "1", "]">> } =>
              frame.kind = "error" /\ frame.err = "path not found"


\* C27: no step of applyResource (from its entry to its return) changes an
\* element of a list the loader returned: the list of group.yaml and the
\* list of the current file stay as they are.
C27_ListsReadOnlyDuringApply ==
    [][(pc = "prepare" \/ pc = "await" \/ pc = "polling" \/ pc = "payload") =>
          groupDef' = groupDef /\ resources' = resources]_vars


\* Every file of paths has been read and every resource met, the group of
\* group.yaml included, is Applied.
AllApplied ==
    /\ pidx > paths
    /\ groupExists => <<0, 1>> \in DOMAIN phase
    /\ \A id \in DOMAIN phase : phase[id] = "Applied"

C29_ResolvedParent(q, p) ==
    /\ q.id[1] = pidx
    /\ p.id[1] = pidx
    /\ q.id[2] <= Len(loaded)
    /\ loaded[q.id[2]].Parent = Empty
    /\ q.spec.Parent # Empty
    /\ AcceptsParent(q.spec.Type, p.spec.Type)
    /\ q.spec.Parent = p.spec.Type \o <<"/">> \o p.spec.Name

\* C29: the PUT path of a child whose Parent the resolver filled in names
\* its parent by the name the parent's own PUT was sent under.
C29_ChildPathNamesSentParent ==
    \A i, j \in 1..Len(requests) :
        C29_ResolvedParent(requests[i], requests[j]) =>
            requests[i].location =
                Endpoint(args.subscriptionId, requests[i].group) \o <<"/providers/">>
                    \o requests[j].resource.Type \o <<"/">> \o requests[j].resource.Name
                    \o SliceFrom(requests[i].resource.Type,
                                 LastIndex(requests[i].resource.Type, <<"/">>))
                    \o <<"/">> \o requests[i].resource.Name
                    \o <<"?api-version=">> \o requests[i].resource.APIVersion

\* A parent with an explicit Name and its resolved child have both been sent.
C29_NamedParentSent ==
    \E i, j \in 1..Len(requests) :
        /\ C29_ResolvedParent(requests[i], requests[j])
        /\ requests[j].spec.Name # Empty


\* Parent is <baseType>/<parentName>: the Type without its last segment,
\* a "/", and a parentName of at least one character.
C30_ParentWellFormed(resource) ==
    /\ LastIndex(resource.Type, <<"/">>) >= 0
    /\ HasPrefix(resource.Parent, SliceTo(resource.Type, LastIndex(resource.Type, <<"/">>)) \o <<"/">>)
    /\ Len(resource.Parent) > LastIndex(resource.Type, <<"/">>) + 1

\* C30: applyResource builds the request of a resource with a Parent only
\* when the Parent is well formed, and answers every other Parent with the
\* "not a valid parent" error.
C30_OnlyWellFormedParentSent ==
    (pc = "returned" /\ args.op = "applyResource" /\ args.resource.Parent # Empty) =>
        /\ frame.outcome = "request" => C30_ParentWellFormed(args.resource)
        /\ ~C30_ParentWellFormed(args.resource) =>
              /\ frame.outcome = "error"
              /\ Contains(frame.value, <<" is not a valid parent for resource ">>)

\* A Parent of another base type is answered with the error.
C30_OtherBaseRejected ==
    (/\ pc = "returned"
     /\ args.op = "applyResource"
     /\ args.resource.Parent # Empty
     /\ LastIndex(args.resource.Type, <<"/">>) >= 0
     /\ ~HasPrefix(args.resource.Parent,
                   SliceTo(args.resource.Type, LastIndex(args.resource.Type, <<"/">>))))
        => /\ frame.outcome = "error"
           /\ Contains(frame.value, <<" is not a valid parent for resource ">>)

====
